---- MODULE Spec2Model ----
(***************************************************************************)
(* Model of the record-enrichment engine: the classification stage         *)
(* (src/src/classifier.py) and the translation stage                       *)
(* (src/src/translator.py).                                                *)
(*                                                                         *)
(* Spec           the classification stage, ServiceCallClassifier          *)
(*                .process_dataframe: submission of one task per row to a   *)
(*                thread pool, the per-record retry loop, collection of     *)
(*                the futures in completion order, materialization.         *)
(* SpecTranslate  the translation stage, ServiceCallTranslator              *)
(*                .translate_dataframe_async: the loop over the configured  *)
(*                columns, the batches of concurrent translate_text calls,  *)
(*                the delay between batches, the <col>_EN columns.          *)
(***************************************************************************)
EXTENDS Integers, Sequences, FiniteSets, TLC

(***************************************************************************)
(* Bounds of the model.                                                    *)
(***************************************************************************)
\* rows of the table handed to process_dataframe
NumRecords == 2
\* largest configured max_workers
MaxWorkersCfg == 2
\* rows of the table handed to translate
TRows == 3
\* largest configured batch_size
MaxBatchSize == 2
\* most rows of the new file of an incremental run
NumNew == 2
\* most rows of the processed file of an incremental run
NumProcessed == 2

(***************************************************************************)
(* Program constants.                                                      *)
(***************************************************************************)
\* process_single_call(..., max_attempts=3); process_dataframe never overrides it
max_attempts == 3
\* MAX_PROBLEMS = 3 in _add_results_to_dataframe
MAX_PROBLEMS == 3

VARIABLES
    df,             \* the table given to process_dataframe: rows [idx, SERVICE_ORDER]
    max_workers,    \* settings['classification']['max_workers']
    pc,             \* position of process_dataframe's main thread
    submitted,      \* number of rows already submitted to the executor
    st,             \* per row label: state of its future
    workerOf,       \* per row label: pool thread running process_single_call (0: none)
    attempts,       \* per row label: the local variable attempts of process_single_call
    outcomes,       \* per row label: outcome of each classification call issued so far
    future_result,  \* per row label: the result part of the future's value
    results,        \* the dict results, in insertion order: <<[idx, result], ...>>
    df_result,      \* the enriched table returned by the stage
    problems_df,    \* the normalized problems table returned by the stage
    tdf,            \* the table given to translate: column name -> cells
    batch_size,     \* config 'batch_size'
    tpc,            \* position of translate_dataframe_async
    col_i,          \* position in columns_to_process of the column in work
    unique_values,  \* unique_values of the column in work
    batch_i,        \* the loop variable i of translate_unique_values
    translation_map,\* translation_map of the column in work
    valid_texts,    \* valid_texts of the batch in work
    tcalls,         \* every translate_text call issued: [col, text, outcome]
    sleeps,         \* number of inter-batch delays taken for the column in work
    tdf_result,     \* df_result of translate_dataframe_async
    arg_new,        \* utils: the table argument new_df of the function called
    arg_processed,  \* utils: the argument processed_df / existing_df (may be None)
    upc,            \* utils: which function was called on the arguments
    uout,           \* utils: the table the function returned
    new_df,         \* incremental run: load_excel(new_file)
    new_columns,    \* incremental run: the columns of the new file
    processed_df,   \* incremental run: load_excel(processed_file)
    final_name,     \* whether the name of processed_file contains '_final.xlsx'
    problems_on_disk,  \* the problems table written with the processed dataset, None if absent
    ipc,            \* position of run_incremental_pipeline
    records_to_process,   \* records_to_process
    translate_calls,      \* labels of the records handed to the translator
    classify_calls,       \* labels of the records handed to the classifier
    new_classified,       \* new_classified
    new_problems_df,      \* new_problems_df
    combined_df,          \* combined_df
    combined_problems_df, \* combined_problems_df
    saved,          \* the tables the run wrote with save_excel, in order
    returned,       \* the pair run_incremental_pipeline returned
    run,            \* number of the run, in a chain of runs on their own output
    prev_merged,    \* whether the run before this one merged and saved
    same_new,       \* whether the new file is the new file of the run before
    full_df,        \* full run: load_excel(input_file)
    full_columns,   \* full run: the columns of the input file
    fpc,            \* position of run_full_pipeline
    full_missing,   \* full run: the missing columns validate_dataframe reported
    full_translate_calls, \* full run: labels of the records handed to the translator
    full_classify_calls,  \* full run: labels of the records handed to the classifier
    df_classified,  \* full run: df_classified and problems_df
    full_saved,     \* full run: the files written with save_excel, in order
    full_returned,  \* the pair run_full_pipeline returned
    disk,           \* save_excel: the files that exist, path -> content
    now,            \* save_excel: the second datetime.now() last fell in
    saves,          \* save_excel: number of calls made
    save_returned,  \* save_excel: the path the last call returned
    rename_replaces \* whether os.rename replaces an existing target (POSIX) or raises

cvars == <<df, max_workers, pc, submitted, st, workerOf, attempts, outcomes,
           future_result, results, df_result, problems_df>>

tvars == <<tdf, batch_size, tpc, col_i, unique_values, batch_i, translation_map,
           valid_texts, tcalls, sleeps, tdf_result>>

uvars == <<arg_new, arg_processed, upc, uout>>

ivars == <<new_df, new_columns, processed_df, final_name, problems_on_disk, ipc, records_to_process,
           translate_calls, classify_calls, new_classified, new_problems_df,
           combined_df, combined_problems_df, saved, returned, run, prev_merged,
           same_new>>

fvars == <<full_df, full_columns, fpc, full_missing, full_translate_calls,
           full_classify_calls, df_classified, full_saved, full_returned>>

svars == <<disk, now, saves, save_returned, rename_replaces>>

vars == <<cvars, tvars, uvars, ivars, fvars, svars>>

(***************************************************************************)
(* JSON values, as json.loads returns them.  Every value is a record with  *)
(* a type tag t; a dict carries its keys as further fields.                *)
(***************************************************************************)
JNull == [t |-> "null"]
JString == [t |-> "string"]
JList(items) == [t |-> "list", items |-> items]
EmptyObject == [t |-> "object"]

\* dict.get(key, default)
Get(d, key, default) == IF key \in DOMAIN d THEN d[key] ELSE default

Pump == [t |-> "object", part |-> "Pump", failure_mode |-> "Leak",
         fix |-> "Seal replaced", confidence |-> "high", supporting_text |-> "..."]
Valve == [t |-> "object", part |-> "Valve", failure_mode |-> "Stuck",
          fix |-> "Lubricated", confidence |-> "medium", supporting_text |-> "..."]
\* a problem entry without failure_mode, fix, confidence, supporting_text
Motor == [t |-> "object", part |-> "Motor"]

Belt == [t |-> "object", part |-> "Belt", failure_mode |-> "Worn",
         fix |-> "Replaced", confidence |-> "high", supporting_text |-> "..."]
Fan == [t |-> "object", part |-> "Fan", failure_mode |-> "Noise",
        fix |-> "Cleaned", confidence |-> "low", supporting_text |-> "..."]

Analysis(n, c) == [t |-> "object", total_problems_found |-> n, confidence_level |-> c]

\* well-formed results
NoProblem == [t |-> "object", analysis |-> Analysis(0, "high"), problems |-> JList(<<>>)]
TwoProblems == [t |-> "object", analysis |-> Analysis(2, "high"),
                problems |-> JList(<<Pump, Valve>>)]
\* more problems than the fixed-slot view has slots
FourProblems == [t |-> "object", analysis |-> Analysis(4, "medium"),
                 problems |-> JList(<<Pump, Valve, Belt, Fan>>)]
\* a result whose analysis block counts more problems than the list holds
Miscounted == [t |-> "object", analysis |-> Analysis(3, "high"),
               problems |-> JList(<<Pump>>)]
\* results with missing fields
MissingFields == [t |-> "object", problems |-> JList(<<Motor>>)]
\* results of an unexpected shape
TopLevelNull == JNull
TopLevelList == JList(<<>>)
NullProblems == [t |-> "object", analysis |-> Analysis(1, "low"), problems |-> JNull]
NonObjectProblem == [t |-> "object", analysis |-> Analysis(1, "low"),
                     problems |-> JList(<<JString>>)]

\* what json.loads(content) can return for a 200 response
WellFormed == {NoProblem, TwoProblems, FourProblems}
Responses == WellFormed \cup {Miscounted, MissingFields, TopLevelNull, TopLevelList,
                               NullProblems, NonObjectProblem}

\* the result process_single_call returns after the last failed attempt
DegradedResult == [t |-> "object", analysis |-> Analysis(0, "low"), problems |-> JList(<<>>)]

\* the future's value before process_single_call returned
NoResult == [t |-> "pending"]

\* natural keys of the rows, by position
ServiceOrders == <<"SO-100", "SO-200", "SO-300", "SO-400">>

\* tables load_excel can hand to the stage: a RangeIndex 0..n-1 and the
\* natural keys, one per record
InputTables ==
    { [k \in 1..n |-> [idx |-> k - 1, SERVICE_ORDER |-> ServiceOrders[k]]] :
        n \in 0..NumRecords }

Labels(table) == { table[k].idx : k \in 1..Len(table) }

(***************************************************************************)
(* The result materializer, _add_results_to_dataframe.                     *)
(***************************************************************************)
\* JSON text, as the sequence of its tokens
LBracket == [tok |-> "["]
RBracket == [tok |-> "]"]
LBrace == [tok |-> "{"]
RBrace == [tok |-> "}"]
Comma == [tok |-> ","]
Colon == [tok |-> ":"]
Str(s) == [tok |-> "string", s |-> s]

\* the keys of a problem entry, in the order the text has them
ProblemKeys == <<"part", "failure_mode", "fix", "confidence", "supporting_text">>

\* the text of the items of a list or dict, separated by commas
RECURSIVE Separated(_)
Separated(texts) ==
    IF texts = <<>> THEN <<>>
    ELSE IF Len(texts) = 1 THEN texts[1]
    ELSE texts[1] \o <<Comma>> \o Separated(Tail(texts))

\* json.dumps of a dict with string values
DumpObject(obj) ==
    LET keys == SelectSeq(ProblemKeys, LAMBDA k : k \in DOMAIN obj)
    IN  <<LBrace>>
        \o Separated([i \in 1..Len(keys) |-> <<Str(keys[i]), Colon, Str(obj[keys[i]])>>])
        \o <<RBrace>>

\* mutant of Dumped: only the problems that have a slot are written
DumpedSlots(problems) ==
    SubSeq(problems, 1, IF Len(problems) < MAX_PROBLEMS THEN Len(problems) ELSE MAX_PROBLEMS)

\* the value handed to json.dumps: json.dumps(problems)
Dumped(problems) == problems

\* json.dumps(problems) of a list of dicts
json_dumps(problems) ==
    <<LBracket>>
    \o Separated([i \in 1..Len(Dumped(problems)) |-> DumpObject(Dumped(problems)[i])])
    \o <<RBracket>>

\* json.loads raises
ParseError == [t |-> "error"]

\* the dict whose text starts at tokens[pos] (a key or the closing brace), and
\* the position after it
RECURSIVE ParseMembers(_, _, _)
ParseMembers(tokens, pos, acc) ==
    IF tokens[pos] = RBrace THEN [value |-> acc, next |-> pos + 1]
    ELSE IF tokens[pos] = Comma THEN ParseMembers(tokens, pos + 1, acc)
    ELSE ParseMembers(tokens, pos + 3,
                      acc @@ (tokens[pos].s :> tokens[pos + 2].s))

\* the dicts whose texts start at tokens[pos], up to the closing bracket
RECURSIVE ParseItems(_, _)
ParseItems(tokens, pos) ==
    IF tokens[pos] = RBracket THEN <<>>
    ELSE IF tokens[pos] = Comma THEN ParseItems(tokens, pos + 1)
    ELSE LET item == ParseMembers(tokens, pos + 1, [t |-> "object"])
         IN  <<item.value>> \o ParseItems(tokens, item.next)

\* json.loads of the text of a list of dicts
json_loads(tokens) ==
    IF tokens = <<>> \/ tokens[1] # LBracket THEN ParseError
    ELSE JList(ParseItems(tokens, 2))

EmptySlot == [Part |-> "", Failure_Mode |-> "", Fix |-> "", Confidence |-> ""]

\* df.copy() with the new columns initialized
InitialColumns(row) ==
    [idx |-> row.idx, SERVICE_ORDER |-> row.SERVICE_ORDER,
     Total_Problems |-> 0, Overall_Confidence |-> "",
     Part_Assembly_Concat |-> "", Failure_Mode_Concat |-> "",
     Fix_Concat |-> "", Confidence_Concat |-> "",
     Primary_Part |-> "", Primary_Failure |-> "",
     Primary_Fix |-> "", Primary_Confidence |-> "",
     Slots |-> [i \in 1..MAX_PROBLEMS |-> EmptySlot],
     All_Problems_JSON |-> <<>>]

\* mutant of JoinSep: the strings are joined without the separator
RECURSIVE JoinPlain(_)
JoinPlain(strs) == IF strs = <<>> THEN "" ELSE strs[1] \o JoinPlain(Tail(strs))

\* " | ".join(strs)
RECURSIVE JoinSep(_)
JoinSep(strs) ==
    IF strs = <<>> THEN ""
    ELSE IF Len(strs) = 1 THEN strs[1]
    ELSE strs[1] \o " | " \o JoinSep(Tail(strs))

\* [p.get(key, "") for p in items]
Field(items, key) == [i \in 1..Len(items) |-> Get(items[i], key, "")]

\* whether the loop body raises for this result: .get on a value that is no
\* dict, slicing None, .get on a problem entry that is no dict
Raises(result) ==
    IF result = JNull THEN FALSE
    ELSE IF result.t # "object" THEN TRUE
    ELSE LET problems == Get(result, "problems", JList(<<>>))
             analysis == Get(result, "analysis", EmptyObject)
         IN  \/ analysis.t # "object"
             \/ problems.t # "list"
             \/ \E i \in 1..Len(problems.items) : problems.items[i].t # "object"

\* result.get("problems", []) of a result the loop body accepts
ProblemsOf(result) == Get(result, "problems", JList(<<>>)).items

\* mutant of Slot: the slots are filled from the last problem backwards
SlotFromEnd(problems, i) ==
    IF i <= Len(problems)
    THEN [Part |-> Get(problems[Len(problems) + 1 - i], "part", ""),
          Failure_Mode |-> Get(problems[Len(problems) + 1 - i], "failure_mode", ""),
          Fix |-> Get(problems[Len(problems) + 1 - i], "fix", ""),
          Confidence |-> Get(problems[Len(problems) + 1 - i], "confidence", "")]
    ELSE EmptySlot

\* the columns Part_i, Failure_Mode_i, Fix_i, Confidence_i after
\* `for i, problem in enumerate(problems[:MAX_PROBLEMS])`
Slot(problems, i) ==
    IF i <= Len(problems)
    THEN [Part |-> Get(problems[i], "part", ""),
          Failure_Mode |-> Get(problems[i], "failure_mode", ""),
          Fix |-> Get(problems[i], "fix", ""),
          Confidence |-> Get(problems[i], "confidence", "")]
    ELSE EmptySlot

\* mutant of total_problems: the problems of the list are counted
CountedProblems(analysis, problems) == Len(problems)

\* total_problems = result.get("analysis", {}).get("total_problems_found", 0)
total_problems(analysis, problems) == Get(analysis, "total_problems_found", 0)

\* the row of df_result after the loop body ran for (row.idx, result)
Columns(row, result) ==
    LET problems == ProblemsOf(result)
        analysis == Get(result, "analysis", EmptyObject)
        n == Len(problems)
        base == [InitialColumns(row) EXCEPT
                   !.Total_Problems = total_problems(analysis, problems),
                   !.Overall_Confidence = Get(analysis, "confidence_level", "low"),
                   !.All_Problems_JSON = json_dumps(problems),
                   !.Slots = [i \in 1..MAX_PROBLEMS |-> Slot(problems, i)]]
    IN  IF n = 0 THEN base
        ELSE [base EXCEPT
                !.Part_Assembly_Concat = JoinSep(Field(problems, "part")),
                !.Failure_Mode_Concat = JoinSep(Field(problems, "failure_mode")),
                !.Fix_Concat = JoinSep(Field(problems, "fix")),
                !.Confidence_Concat = JoinSep(Field(problems, "confidence")),
                !.Primary_Part = Get(problems[1], "part", ""),
                !.Primary_Failure = Get(problems[1], "failure_mode", ""),
                !.Primary_Fix = Get(problems[1], "fix", ""),
                !.Primary_Confidence = Get(problems[1], "confidence", "")]

\* the placeholder record appended when a result has no problems
UnknownRecord(row) ==
    [SERVICE_ORDER |-> row.SERVICE_ORDER, Row_Index |-> row.idx, Problem_Number |-> 1,
     Part |-> "Unknown", Failure_Mode |-> "Unknown", Fix |-> "Unknown",
     Confidence |-> "low", Supporting_Text |-> ""]

\* the approach-4 records appended for (row.idx, result)
NormalizedRecords(row, result) ==
    LET problems == ProblemsOf(result)
    IN  IF problems = <<>> THEN <<UnknownRecord(row)>>
        ELSE [i \in 1..Len(problems) |->
                [SERVICE_ORDER |-> row.SERVICE_ORDER, Row_Index |-> row.idx,
                 Problem_Number |-> i,
                 Part |-> Get(problems[i], "part", ""),
                 Failure_Mode |-> Get(problems[i], "failure_mode", ""),
                 Fix |-> Get(problems[i], "fix", ""),
                 Confidence |-> Get(problems[i], "confidence", ""),
                 Supporting_Text |-> Get(problems[i], "supporting_text", "")]]

\* `if result is None: continue`
Skipped(result) == result = JNull

\* df.loc[idx]
Loc(table, idx) == table[CHOOSE k \in 1..Len(table) : table[k].idx = idx]

\* approach4_records after the loop ran over res (results.items(), insertion order)
RECURSIVE Approach4(_, _)
Approach4(table, res) ==
    IF res = <<>> THEN <<>>
    ELSE LET e == res[Len(res)]
             before == Approach4(table, SubSeq(res, 1, Len(res) - 1))
         IN  IF Skipped(e.result) THEN before
             ELSE before \o NormalizedRecords(Loc(table, e.idx), e.result)

\* the last entry of res written under label idx (a dict keeps one value per key)
Entry(res, idx) ==
    res[CHOOSE i \in 1..Len(res) :
          /\ res[i].idx = idx
          /\ \A j \in (i + 1)..Len(res) : res[j].idx # idx]

\* _add_results_to_dataframe(df, results): raises, or returns the two tables
add_results_to_dataframe(table, res) ==
    IF \E i \in 1..Len(res) : Raises(res[i].result)
    THEN [raised |-> TRUE, df_result |-> <<>>, problems_df |-> <<>>]
    ELSE [raised |-> FALSE,
          df_result |->
              [k \in 1..Len(table) |->
                 IF /\ \E i \in 1..Len(res) : res[i].idx = table[k].idx
                    /\ ~Skipped(Entry(res, table[k].idx).result)
                 THEN Columns(table[k], Entry(res, table[k].idx).result)
                 ELSE InitialColumns(table[k])],
          problems_df |-> Approach4(table, res)]

(***************************************************************************)
(* process_single_call: the per-record retry loop.                         *)
(***************************************************************************)
\* mutant of NextAttempts: the increment is lost
NoIncrement(a) == a

\* attempts += 1
NextAttempts(a) == a + 1

\* mutant of Exhausted: the record is given up one attempt early
ExhaustedEarly(a) == a = max_attempts - 1

\* mutant of Exhausted: the branch that returns the degraded result is never taken
NeverExhausted(a) == FALSE

\* if attempts == max_attempts: return the degraded result
Exhausted(a) == a = max_attempts

\* while attempts < max_attempts
LoopContinues(a) == a < max_attempts

(***************************************************************************)
(* process_dataframe: the thread pool and the collecting main thread.      *)
(***************************************************************************)
\* mutant of IdleWorkers: a busy thread is handed a second task
AnyWorker == 1..max_workers

\* pool threads that run no task (ThreadPoolExecutor(max_workers=max_workers))
IdleWorkers ==
    { w \in 1..max_workers : \A i \in Labels(df) : workerOf[i] # w }

\* the executor's work queue is first in, first out: the queued row submitted first
QueueHead ==
    df[CHOOSE k \in 1..Len(df) :
         /\ st[df[k].idx] = "queued"
         /\ \A j \in 1..(k - 1) : st[df[j].idx] # "queued"].idx

\* mutant of CollectKey: results are keyed by their order of arrival
CollectByArrival(idx) == df[Len(results) + 1].idx

\* row_idx, result = future.result(); results[row_idx] = result
CollectKey(idx) == idx

InitClassifier ==
    /\ df \in InputTables
    /\ max_workers \in 1..MaxWorkersCfg
    /\ pc = "submit"
    /\ submitted = 0
    /\ st = [i \in Labels(df) |-> "new"]
    /\ workerOf = [i \in Labels(df) |-> 0]
    /\ attempts = [i \in Labels(df) |-> 0]
    /\ outcomes = [i \in Labels(df) |-> <<>>]
    /\ future_result = [i \in Labels(df) |-> NoResult]
    /\ results = <<>>
    /\ df_result = <<>>
    /\ problems_df = <<>>

\* executor.submit(self.process_single_call, idx, row_data) for the next row
Submit ==
    /\ pc = "submit"
    /\ submitted < Len(df)
    /\ submitted' = submitted + 1
    /\ st' = [st EXCEPT ![df[submitted + 1].idx] = "queued"]
    /\ UNCHANGED <<df, max_workers, pc, workerOf, attempts, outcomes,
                   future_result, results, df_result, problems_df>>

\* the submission loop ends; the main thread enters as_completed(futures)
AllSubmitted ==
    /\ pc = "submit"
    /\ submitted = Len(df)
    /\ pc' = "collect"
    /\ UNCHANGED <<df, max_workers, submitted, st, workerOf, attempts, outcomes,
                   future_result, results, df_result, problems_df>>

\* an idle pool thread takes the head of the queue and enters
\* process_single_call: attempts = 0 and the first classification call is issued.
\* Pool threads are interchangeable: the idle thread of least number takes it.
StartTask(w) ==
    /\ w \in IdleWorkers
    /\ \A v \in IdleWorkers : w <= v
    /\ \E i \in Labels(df) : st[i] = "queued"
    /\ LET idx == QueueHead
       IN  /\ st' = [st EXCEPT ![idx] = "running"]
           /\ workerOf' = [workerOf EXCEPT ![idx] = w]
           /\ attempts' = [attempts EXCEPT ![idx] = 0]
    /\ UNCHANGED <<df, max_workers, pc, submitted, outcomes, future_result,
                   results, df_result, problems_df>>

\* the call in flight for idx raises (transport error, status other than 200,
\* content that json.loads rejects): the except branch of the retry loop
CallRaises(idx) ==
    /\ st[idx] = "running"
    /\ outcomes' = [outcomes EXCEPT ![idx] = Append(@, "F")]
    /\ LET a == NextAttempts(attempts[idx])
       IN  /\ attempts' = [attempts EXCEPT ![idx] = a]
           /\ IF Exhausted(a)
              THEN /\ st' = [st EXCEPT ![idx] = "finished"]
                   /\ future_result' = [future_result EXCEPT ![idx] = DegradedResult]
                   /\ workerOf' = [workerOf EXCEPT ![idx] = 0]
              ELSE IF LoopContinues(a)
              THEN UNCHANGED <<st, future_result, workerOf>>
              ELSE /\ st' = [st EXCEPT ![idx] = "finished"]
                   /\ future_result' = [future_result EXCEPT ![idx] = JNull]
                   /\ workerOf' = [workerOf EXCEPT ![idx] = 0]
    /\ UNCHANGED <<df, max_workers, pc, submitted, results, df_result, problems_df>>

\* the call in flight for idx answers 200 with content that json.loads parses to r:
\* process_single_call returns (row_index, r)
CallReturns(idx, r) ==
    /\ st[idx] = "running"
    /\ outcomes' = [outcomes EXCEPT ![idx] = Append(@, "S")]
    /\ st' = [st EXCEPT ![idx] = "finished"]
    /\ future_result' = [future_result EXCEPT ![idx] = r]
    /\ workerOf' = [workerOf EXCEPT ![idx] = 0]
    /\ UNCHANGED <<df, max_workers, pc, submitted, attempts, results,
                   df_result, problems_df>>

\* as_completed yields a finished future: results[row_idx] = result
Collect(idx) ==
    /\ pc = "collect"
    /\ st[idx] = "finished"
    /\ st' = [st EXCEPT ![idx] = "collected"]
    /\ results' = Append(results, [idx |-> CollectKey(idx), result |-> future_result[idx]])
    /\ UNCHANGED <<df, max_workers, pc, submitted, workerOf, attempts, outcomes,
                   future_result, df_result, problems_df>>

\* mutant of MaterializeReady: the tables are built as soon as the submit loop ended
MaterializeEarly == pc = "collect"

\* as_completed has yielded every future and the executor has shut down
MaterializeReady ==
    /\ pc = "collect"
    /\ \A i \in Labels(df) : st[i] = "collected"

\* df_result = self._add_results_to_dataframe(df, results); return df_result
Materialize ==
    /\ MaterializeReady
    /\ LET out == add_results_to_dataframe(df, results)
       IN  /\ pc' = IF out.raised THEN "raised" ELSE "done"
           /\ df_result' = out.df_result
           /\ problems_df' = out.problems_df
    /\ UNCHANGED <<df, max_workers, submitted, st, workerOf, attempts, outcomes,
                   future_result, results>>

\* the steps of the classification stage; the translator is not running
Next ==
    \/ Submit /\ UNCHANGED <<tvars, uvars, ivars, fvars, svars>>
    \/ AllSubmitted /\ UNCHANGED <<tvars, uvars, ivars, fvars, svars>>
    \/ \E w \in 1..MaxWorkersCfg : StartTask(w) /\ UNCHANGED <<tvars, uvars, ivars, fvars, svars>>
    \/ \E idx \in Labels(df) : CallRaises(idx) /\ UNCHANGED <<tvars, uvars, ivars, fvars, svars>>
    \/ \E idx \in Labels(df), r \in Responses : CallReturns(idx, r) /\ UNCHANGED <<tvars, uvars, ivars, fvars, svars>>
    \/ \E idx \in Labels(df) : Collect(idx) /\ UNCHANGED <<tvars, uvars, ivars, fvars, svars>>
    \/ Materialize /\ UNCHANGED <<tvars, uvars, ivars, fvars, svars>>

(***************************************************************************)
(* The translation stage, translate_dataframe_async and                    *)
(* translate_unique_values.                                                 *)
(***************************************************************************)
\* a missing cell (NaN)
NA == "<NA>"

\* cell values of the text columns
CellValues == {NA, "", " ", "a", "b", "c"}

\* str(text).strip() on the cell values
Strip(text) == IF text \in {"", " "} THEN "" ELSE text

\* pd.isna(text) or str(text).strip() == ''
IsBlank(text) == text = NA \/ Strip(text) = ""

\* config 'columns_to_translate'
columns_to_translate == <<"REASON_FOR_SERVICE", "SPECIAL_NOTES">>

\* f'{col}_EN'
EN(col) == col \o "_EN"

\* texts the translation service can answer with
Translations == {"T1", "T2"}

\* tables handed to translate: TRows rows; the first configured column absent
\* or holding any cells, the second absent, all missing or all the same text;
\* the table may already hold a column named like the first column's _EN column
\* (a table that went through translate before)
TranslateTables ==
    LET first == {<<>>} \cup
                 { [c \in {columns_to_translate[1]} |-> cells] :
                     cells \in [1..TRows -> CellValues] }
        second == { <<>>,
                    [c \in {columns_to_translate[2]} |-> [r \in 1..TRows |-> NA]],
                    [c \in {columns_to_translate[2]} |-> [r \in 1..TRows |-> "a"]] }
        earlier == { <<>>,
                     [c \in {EN(columns_to_translate[1])} |-> [r \in 1..TRows |-> "old"]] }
    IN  { a @@ b @@ e : a \in first, b \in second, e \in earlier }

\* [col for col in self.columns_to_translate if col in df.columns]
columns_to_process ==
    SelectSeq(columns_to_translate, LAMBDA c : c \in DOMAIN tdf)

\* Series.dropna()
DropNA(cells) == SelectSeq(cells, LAMBDA x : x # NA)

\* mutant of Unique: every cell is kept, duplicates included
NoDedup(cells) == cells

\* Series.unique(): the distinct values in order of first appearance
Unique(cells) ==
    LET first == { k \in 1..Len(cells) : \A j \in 1..(k - 1) : cells[j] # cells[k] }
        F[k \in 0..Len(cells)] ==
            IF k = 0 THEN <<>>
            ELSE IF k \in first THEN Append(F[k - 1], cells[k]) ELSE F[k - 1]
    IN  F[Len(cells)]

\* unique_values[i:i + self.batch_size]
Batch(values, i) ==
    SubSeq(values, i + 1, IF i + batch_size < Len(values) THEN i + batch_size ELSE Len(values))

\* df[col].map(translation_map) then fillna(df[col])
MapFill(cells, map) ==
    [r \in 1..Len(cells) |->
       IF cells[r] \in DOMAIN map THEN map[cells[r]] ELSE cells[r]]

\* mutant of KeepOriginal: a failed text is left without translation
DropOnError(text) == NA

\* translation_map[text] = str(text)  # Keep original on error
KeepOriginal(text) == text

\* mutant of MoreBatches: the delay is taken after every batch
AlwaysDelay(i) == TRUE

\* if i + self.batch_size < total: await asyncio.sleep(self.batch_delay)
MoreBatches(i) == i + batch_size < Len(unique_values)

\* indices in tcalls of the calls still in flight
Pending == { j \in 1..Len(tcalls) : tcalls[j].outcome = "pending" }

ClassifierIdle ==
    /\ df = <<>>
    /\ max_workers = 1
    /\ pc = "idle"
    /\ submitted = 0
    /\ st = <<>>
    /\ workerOf = <<>>
    /\ attempts = <<>>
    /\ outcomes = <<>>
    /\ future_result = <<>>
    /\ results = <<>>
    /\ df_result = <<>>
    /\ problems_df = <<>>

TranslatorIdle ==
    /\ tdf = <<>>
    /\ batch_size = 1
    /\ tpc = "idle"
    /\ col_i = 0
    /\ unique_values = <<>>
    /\ batch_i = 0
    /\ translation_map = <<>>
    /\ valid_texts = <<>>
    /\ tcalls = <<>>
    /\ sleeps = 0
    /\ tdf_result = <<>>

InitTranslator ==
    /\ tdf \in TranslateTables
    /\ batch_size \in 1..MaxBatchSize
    /\ tpc = "start"
    /\ col_i = 0
    /\ unique_values = <<>>
    /\ batch_i = 0
    /\ translation_map = <<>>
    /\ valid_texts = <<>>
    /\ tcalls = <<>>
    /\ sleeps = 0
    /\ tdf_result = <<>>

\* df_result = df.copy(); return it when no configured column exists
TStart ==
    /\ tpc = "start"
    /\ tdf_result' = tdf
    /\ tpc' = IF columns_to_process = <<>> THEN "done" ELSE "column"
    /\ col_i' = 1
    /\ UNCHANGED <<tdf, batch_size, unique_values, batch_i, translation_map,
                   valid_texts, tcalls, sleeps>>

\* the head of the loop over columns_to_process: unique_values of the column;
\* a column without data is passed over
TColumn ==
    /\ tpc = "column"
    /\ LET col == columns_to_process[col_i]
           u == Unique(DropNA(tdf[col]))
       IN  /\ unique_values' = u
           /\ IF Len(u) = 0
              THEN /\ col_i' = col_i + 1
                   /\ tpc' = IF col_i = Len(columns_to_process) THEN "done" ELSE "column"
              ELSE /\ col_i' = col_i
                   /\ tpc' = "batch"
    /\ batch_i' = 0
    /\ translation_map' = <<>>
    /\ sleeps' = 0
    /\ UNCHANGED <<tdf, batch_size, valid_texts, tcalls, tdf_result>>

\* one pass of the batch loop up to asyncio.gather: blank texts are mapped to
\* '' at once, a translate_text call is issued for each other text
TBatch ==
    /\ tpc = "batch"
    /\ LET batch == Batch(unique_values, batch_i)
           blank == { batch[k] : k \in { k \in 1..Len(batch) : IsBlank(batch[k]) } }
           valid == SelectSeq(batch, LAMBDA x : ~IsBlank(x))
       IN  /\ translation_map' = [x \in blank |-> ""] @@ translation_map
           /\ valid_texts' = valid
           /\ tcalls' = tcalls \o
                  [k \in 1..Len(valid) |->
                     [col |-> columns_to_process[col_i], text |-> valid[k],
                      batch |-> batch_i, outcome |-> "pending"]]
    /\ tpc' = "gather"
    /\ UNCHANGED <<tdf, batch_size, col_i, unique_values, batch_i, sleeps, tdf_result>>

\* a translate_text call in flight returns the text t
TCallReturns(j, t) ==
    /\ j \in Pending
    /\ tcalls' = [tcalls EXCEPT ![j].outcome = t]
    /\ UNCHANGED <<tdf, batch_size, tpc, col_i, unique_values, batch_i,
                   translation_map, valid_texts, sleeps, tdf_result>>

\* a translate_text call in flight raises
TCallRaises(j) ==
    /\ j \in Pending
    /\ tcalls' = [tcalls EXCEPT ![j].outcome = "raised"]
    /\ UNCHANGED <<tdf, batch_size, tpc, col_i, unique_values, batch_i,
                   translation_map, valid_texts, sleeps, tdf_result>>

\* the result gather hands back for the k-th text of the batch in work
GatherResult(k) == tcalls[Len(tcalls) - Len(valid_texts) + k].outcome

\* gather returned: the results are written into translation_map (the original
\* text for a call that raised); then the delay, the next column or the end.
\* A finished column gets its _EN column: map, then fillna with the original.
TGathered ==
    /\ tpc = "gather"
    /\ Pending = {}
    /\ LET col == columns_to_process[col_i]
           got == [x \in { valid_texts[k] : k \in 1..Len(valid_texts) } |->
                     LET k == CHOOSE k \in 1..Len(valid_texts) :
                                /\ valid_texts[k] = x
                                /\ \A j \in (k + 1)..Len(valid_texts) : valid_texts[j] # x
                     IN  IF GatherResult(k) = "raised" THEN KeepOriginal(x)
                         ELSE GatherResult(k)]
           map == got @@ translation_map
       IN  /\ translation_map' = map
           /\ IF MoreBatches(batch_i)
              THEN /\ tpc' = "sleep"
                   /\ UNCHANGED <<col_i, tdf_result>>
              ELSE /\ tdf_result' = [c \in DOMAIN tdf_result \cup {EN(col)} |->
                                       IF c = EN(col) THEN MapFill(tdf[col], map)
                                       ELSE tdf_result[c]]
                   /\ col_i' = col_i + 1
                   /\ tpc' = IF col_i = Len(columns_to_process) THEN "done" ELSE "column"
    /\ valid_texts' = <<>>
    /\ UNCHANGED <<tdf, batch_size, unique_values, batch_i, tcalls, sleeps>>

\* await asyncio.sleep(self.batch_delay) is over: the next batch
TSleepDone ==
    /\ tpc = "sleep"
    /\ batch_i' = batch_i + batch_size
    /\ sleeps' = sleeps + 1
    /\ tpc' = "batch"
    /\ UNCHANGED <<tdf, batch_size, col_i, unique_values, translation_map,
                   valid_texts, tcalls, tdf_result>>

\* the steps of the translation stage; the classifier is not running
NextTranslate ==
    \/ TStart /\ UNCHANGED <<cvars, uvars, ivars, fvars, svars>>
    \/ TColumn /\ UNCHANGED <<cvars, uvars, ivars, fvars, svars>>
    \/ TBatch /\ UNCHANGED <<cvars, uvars, ivars, fvars, svars>>
    \/ \E j \in 1..Len(tcalls), t \in Translations : TCallReturns(j, t) /\ UNCHANGED <<cvars, uvars, ivars, fvars, svars>>
    \/ \E j \in 1..Len(tcalls) : TCallRaises(j) /\ UNCHANGED <<cvars, uvars, ivars, fvars, svars>>
    \/ TGathered /\ UNCHANGED <<cvars, uvars, ivars, fvars, svars>>
    \/ TSleepDone /\ UNCHANGED <<cvars, uvars, ivars, fvars, svars>>

(***************************************************************************)
(* The helpers of the incremental run, find_new_service_orders and         *)
(* merge_processed_data.  A table is the sequence of its rows; a table     *)
(* that may be None carries the flag ok.                                   *)
(***************************************************************************)
\* load_excel returned None / a table
None == [ok |-> FALSE, rows |-> <<>>]
Some(rows) == [ok |-> TRUE, rows |-> rows]

\* mutant of IsEmpty: a table is never taken for empty
NeverEmpty(rows) == FALSE

\* DataFrame.empty
IsEmpty(rows) == rows = <<>>

\* set(df[id_column].unique())
Keys(rows) == { rows[k].SERVICE_ORDER : k \in 1..Len(rows) }

\* natural keys the files of the incremental run are drawn from
FileKeys == {ServiceOrders[1], ServiceOrders[2], ServiceOrders[3]}

\* the new file as load_excel returns it: up to NumNew rows, RangeIndex labels,
\* any keys (a key may occur twice)
NewFrames ==
    UNION { { [k \in 1..n |-> [idx |-> k - 1, SERVICE_ORDER |-> keys[k]]] :
                keys \in [1..n -> FileKeys] } : n \in 0..NumNew }

\* the processed file as load_excel returns it: up to NumProcessed enriched
\* rows written by an earlier run, RangeIndex labels
ProcessedFrames ==
    UNION { { [k \in 1..n |-> Columns([idx |-> k - 1, SERVICE_ORDER |-> keys[k]], NoProblem)] :
                keys \in [1..n -> FileKeys] } : n \in 0..NumProcessed }

\* mutant of SetDifference: nothing is taken away
NoDifference(a, b) == a

\* new_orders - existing_orders
SetDifference(a, b) == a \ b

\* mutant of find_new_service_orders: every row of new
AllRecords(new, processed) == new

\* mutant of find_new_service_orders: the rows of new whose key is processed
KnownRecords(new, processed) ==
    IF ~processed.ok THEN new
    ELSE SelectSeq(new, LAMBDA r : r.SERVICE_ORDER \in Keys(processed.rows))

\* find_new_service_orders(new_df, processed_df); pd.DataFrame() and a table
\* without rows are both the empty sequence
find_new_service_orders(new, processed) ==
    IF ~processed.ok \/ IsEmpty(processed.rows) THEN new
    ELSE LET existing_orders == Keys(processed.rows)
             new_orders == Keys(new)
             orders_to_process == SetDifference(new_orders, existing_orders)
         IN  IF orders_to_process = {} THEN <<>>
             ELSE SelectSeq(new, LAMBDA r : r.SERVICE_ORDER \in orders_to_process)

\* the columns of the rows of a table
ColumnsOf(rows) == UNION { DOMAIN rows[k] : k \in 1..Len(rows) }

\* mutant of Concat: rows whose key was seen before are dropped
ConcatDropDuplicates(a, b) ==
    LET all == a \o b
        firsts == { k \in 1..Len(all) :
                      \A j \in 1..(k - 1) : all[j].SERVICE_ORDER # all[k].SERVICE_ORDER }
    IN  [k \in 1..Cardinality(firsts) |->
           all[CHOOSE i \in firsts : Cardinality({ j \in firsts : j < i }) = k - 1]]

\* mutant of Concat: the new rows come first
ConcatReversed(a, b) ==
    LET all == b \o a
    IN  [k \in 1..Len(all) |-> [all[k] EXCEPT !.idx = k - 1]]

\* pd.concat([a, b], ignore_index=True): the rows of a then the rows of b over
\* the union of the columns, a missing cell where a row lacks a column, and a
\* fresh RangeIndex
Concat(a, b) ==
    LET all == a \o b
        cols == ColumnsOf(all)
    IN  [k \in 1..Len(all) |->
           [c \in cols |-> IF c = "idx" THEN k - 1
                           ELSE IF c \in DOMAIN all[k] THEN all[k][c] ELSE NA]]

\* mutant of merge_processed_data: the existing rows are not kept
KeepNew(existing, new) == new

\* mutant of merge_processed_data: the new rows are not added
KeepExisting(existing, new) == existing.rows

\* merge_processed_data(existing_df, new_df)
merge_processed_data(existing, new) ==
    IF ~existing.ok \/ IsEmpty(existing.rows) THEN new
    ELSE Concat(existing.rows, new)

UtilsIdle ==
    /\ arg_new = <<>>
    /\ arg_processed = None
    /\ upc = "idle"
    /\ uout = <<>>

\* the arguments of a call of one of the two helpers
InitUtils ==
    /\ arg_new \in NewFrames
    /\ arg_processed \in {None} \cup { Some(rows) : rows \in ProcessedFrames }
    /\ upc = "args"
    /\ uout = <<>>

\* records_to_process = find_new_service_orders(new_df, processed_df)
FindNew ==
    /\ upc = "args"
    /\ uout' = find_new_service_orders(arg_new, arg_processed)
    /\ upc' = "found"
    /\ UNCHANGED <<arg_new, arg_processed>>

\* combined_df = merge_processed_data(processed_df, new_df)
Merge ==
    /\ upc = "args"
    /\ uout' = merge_processed_data(arg_processed, arg_new)
    /\ upc' = "merged"
    /\ UNCHANGED <<arg_new, arg_processed>>

NextUtils ==
    \/ FindNew /\ UNCHANGED <<cvars, tvars, ivars, fvars, svars>>
    \/ Merge /\ UNCHANGED <<cvars, tvars, ivars, fvars, svars>>

(***************************************************************************)
(* The incremental run, run_incremental_pipeline.  The translation and the *)
(* classification stage are each one step here: the records they are       *)
(* called on, and for the classification what the materializer returns for *)
(* the results of the calls.                                                *)
(***************************************************************************)
\* most runs chained on their own output
MaxRuns == 2

\* the text columns process_dataframe reads of every row
ClassifierColumns ==
    {"REASON_FOR_SERVICE", "SPECIAL_NOTES", "SERVICE_PERFORMED", "ISSUE_REPORTED"}

\* the columns of an input file that lacks none
AllColumns == {"SERVICE_ORDER"} \cup ClassifierColumns

\* the columns an input file can have: all of them, or all but one
ColumnSets == {AllColumns} \cup { AllColumns \ {c} : c \in AllColumns }

\* the column sets of the files of the incremental run, which have their key
KeyedColumnSets == { cols \in ColumnSets : "SERVICE_ORDER" \in cols }

\* the configured columns the translator finds in the table
TranslatedColumns(columns) ==
    { columns_to_translate[k] : k \in 1..Len(columns_to_translate) } \cap columns

\* df.loc[idx, <text column>] of the submit loop raises KeyError
SubmitRaises(columns) == ~(ClassifierColumns \subseteq columns)

\* mutant of LoadFailed: a file that cannot be loaded is taken for a table
NeverFailed(file) == FALSE

\* if df is None / if new_df is None
LoadFailed(file) == ~file.ok

\* per-record results the classification stage can collect in a run
PipelineResults == {TwoProblems, TopLevelNull, TopLevelList}

\* the normalized problems file an earlier run wrote for the processed rows
ProblemsOfProcessed(rows) ==
    [k \in 1..Len(rows) |-> UnknownRecord(rows[k])]

\* a table read back from the file save_excel wrote with index=False: the
\* labels are a fresh RangeIndex
Reload(rows) ==
    [k \in 1..Len(rows) |->
       [c \in DOMAIN rows[k] |-> IF c = "idx" THEN k - 1 ELSE rows[k][c]]]

\* the results dict in the order the workers completed: the order of the table
\* or the reverse of it
CompletionOrders(rows, res) ==
    LET n == Len(rows)
    IN  { [k \in 1..n |-> [idx |-> rows[k].idx, result |-> res[k]]],
          [k \in 1..n |-> [idx |-> rows[n + 1 - k].idx, result |-> res[n + 1 - k]]] }

\* load_excel(processed_file.replace('_final.xlsx', '_problems_normalized.xlsx')):
\* the problems file of a full run, written next to '<name>_final.xlsx'; a name
\* without '_final.xlsx' is left as it is and the processed file itself is read
existing_problems_df == IF final_name THEN problems_on_disk ELSE processed_df

IncrementalIdle ==
    /\ new_df = None
    /\ new_columns = {}
    /\ processed_df = None
    /\ final_name = FALSE
    /\ problems_on_disk = None
    /\ ipc = "idle"
    /\ records_to_process = <<>>
    /\ translate_calls = {}
    /\ classify_calls = {}
    /\ new_classified = <<>>
    /\ new_problems_df = <<>>
    /\ combined_df = <<>>
    /\ combined_problems_df = <<>>
    /\ saved = <<>>
    /\ returned = [main |-> None, problems |-> None]
    /\ run = 0
    /\ prev_merged = FALSE
    /\ same_new = FALSE

\* the locals of a run before its first statement
RunStart ==
    /\ ipc = "load"
    /\ records_to_process = <<>>
    /\ translate_calls = {}
    /\ classify_calls = {}
    /\ new_classified = <<>>
    /\ new_problems_df = <<>>
    /\ combined_df = <<>>
    /\ combined_problems_df = <<>>
    /\ saved = <<>>
    /\ returned = [main |-> None, problems |-> None]

\* the new file of a run: it cannot be loaded, or it has rows and columns
NewFile(file, columns) ==
    \/ file = None /\ columns = {}
    \/ /\ file \in { Some(rows) : rows \in NewFrames }
       /\ columns \in KeyedColumnSets

\* the files of the first run
InitIncremental ==
    /\ NewFile(new_df, new_columns)
    /\ processed_df \in {None} \cup { Some(rows) : rows \in ProcessedFrames }
    /\ final_name \in BOOLEAN
    /\ problems_on_disk \in
          IF processed_df.ok
          THEN {None, Some(ProblemsOfProcessed(processed_df.rows))}
          ELSE {None}
    /\ RunStart
    /\ run = 1
    /\ prev_merged = FALSE
    /\ same_new = FALSE

\* new_df = load_excel(new_file); if new_df is None: return None, None
ILoad ==
    /\ ipc = "load"
    /\ IF LoadFailed(new_df)
       THEN ipc' = "returned" /\ returned' = [main |-> None, problems |-> None]
       ELSE ipc' = "find" /\ UNCHANGED returned
    /\ UNCHANGED <<new_df, new_columns, processed_df, final_name, problems_on_disk,
                   records_to_process, translate_calls, classify_calls,
                   new_classified, new_problems_df, combined_df,
                   combined_problems_df, saved, run, prev_merged, same_new>>

\* records_to_process = find_new_service_orders(new_df, processed_df);
\* if records_to_process.empty: return processed_df, None
IFind ==
    /\ ipc = "find"
    /\ LET records == find_new_service_orders(new_df.rows, processed_df)
       IN  /\ records_to_process' = records
           /\ IF IsEmpty(records)
              THEN /\ ipc' = "returned"
                   /\ returned' = [main |-> processed_df, problems |-> None]
              ELSE /\ ipc' = "translate"
                   /\ UNCHANGED returned
    /\ UNCHANGED <<new_df, new_columns, processed_df, final_name, problems_on_disk,
                   translate_calls, classify_calls, new_classified,
                   new_problems_df, combined_df, combined_problems_df, saved,
                   run, prev_merged, same_new>>

\* new_translated = self.translator.translate(records_to_process)
ITranslate ==
    /\ ipc = "translate"
    /\ translate_calls' = IF TranslatedColumns(new_columns) = {} THEN {}
                          ELSE Labels(records_to_process)
    /\ ipc' = "classify"
    /\ UNCHANGED <<new_df, new_columns, processed_df, final_name, problems_on_disk,
                   records_to_process, classify_calls, new_classified,
                   new_problems_df, combined_df, combined_problems_df, saved,
                   returned, run, prev_merged, same_new>>

\* new_classified, new_problems_df = self.classifier.process_dataframe(...):
\* a KeyError of the submit loop when a text column is missing, before any
\* call; else calls for every record, and an exception of the materializer
\* leaves the run
IClassify(res) ==
    /\ ipc = "classify"
    /\ IF SubmitRaises(new_columns)
       THEN /\ ipc' = "raised"
            /\ UNCHANGED <<classify_calls, new_classified, new_problems_df>>
       ELSE /\ classify_calls' = Labels(records_to_process)
            /\ \E ordered \in CompletionOrders(records_to_process, res) :
                  LET out == add_results_to_dataframe(records_to_process, ordered)
                  IN  IF out.raised
                      THEN /\ ipc' = "raised"
                           /\ UNCHANGED <<new_classified, new_problems_df>>
                      ELSE /\ ipc' = "merge"
                           /\ new_classified' = out.df_result
                           /\ new_problems_df' = out.problems_df
    /\ UNCHANGED <<new_df, new_columns, processed_df, final_name, problems_on_disk,
                   records_to_process, translate_calls, combined_df,
                   combined_problems_df, saved, returned, run, prev_merged, same_new>>

\* combined_df = merge_processed_data(processed_df, new_classified);
\* combined_problems_df = merge_processed_data(existing_problems_df, new_problems_df)
IMerge ==
    /\ ipc = "merge"
    /\ combined_df' = merge_processed_data(processed_df, new_classified)
    /\ combined_problems_df' = merge_processed_data(existing_problems_df, new_problems_df)
    /\ ipc' = "save"
    /\ UNCHANGED <<new_df, new_columns, processed_df, final_name, problems_on_disk,
                   records_to_process, translate_calls, classify_calls,
                   new_classified, new_problems_df, saved, returned, run,
                   prev_merged, same_new>>

\* the two save_excel calls; return combined_df, combined_problems_df
ISave ==
    /\ ipc = "save"
    /\ saved' = <<combined_df, combined_problems_df>>
    /\ returned' = [main |-> Some(combined_df), problems |-> Some(combined_problems_df)]
    /\ ipc' = "returned"
    /\ UNCHANGED <<new_df, new_columns, processed_df, final_name, problems_on_disk,
                   records_to_process, translate_calls, classify_calls,
                   new_classified, new_problems_df, combined_df,
                   combined_problems_df, run, prev_merged, same_new>>

\* the next run of a chain: a new file (the same or another) against the main
\* table the run returned, read back from '<output_base_name>_<timestamp>.xlsx'
INextRun ==
    /\ ipc = "returned"
    /\ new_df.ok
    /\ run < MaxRuns
    /\ run' = run + 1
    /\ prev_merged' = (saved # <<>>)
    /\ processed_df' = IF returned.main.ok THEN Some(Reload(returned.main.rows))
                       ELSE None
    /\ final_name' = IF saved # <<>> THEN FALSE ELSE final_name
    \* the saved main table has no '*_problems_normalized.xlsx' beside it: the
    \* run wrote its problems table to '<output_base_name>_problems_<timestamp>.xlsx'
    /\ problems_on_disk' = IF saved # <<>> THEN None ELSE problems_on_disk
    /\ ipc' = "load"
    /\ records_to_process' = <<>>
    /\ translate_calls' = {}
    /\ classify_calls' = {}
    /\ new_classified' = <<>>
    /\ new_problems_df' = <<>>
    /\ combined_df' = <<>>
    /\ combined_problems_df' = <<>>
    /\ saved' = <<>>
    /\ returned' = [main |-> None, problems |-> None]
    /\ NewFile(new_df', new_columns')
    /\ same_new' = (new_df' = new_df /\ new_columns' = new_columns)

NextIncremental ==
    \/ ILoad /\ UNCHANGED <<cvars, tvars, uvars, fvars, svars>>
    \/ IFind /\ UNCHANGED <<cvars, tvars, uvars, fvars, svars>>
    \/ ITranslate /\ UNCHANGED <<cvars, tvars, uvars, fvars, svars>>
    \/ \E res \in [1..Len(records_to_process) -> PipelineResults] :
          IClassify(res) /\ UNCHANGED <<cvars, tvars, uvars, fvars, svars>>
    \/ IMerge /\ UNCHANGED <<cvars, tvars, uvars, fvars, svars>>
    \/ ISave /\ UNCHANGED <<cvars, tvars, uvars, fvars, svars>>
    \/ INextRun /\ UNCHANGED <<cvars, tvars, uvars, fvars, svars>>

(***************************************************************************)
(* The full run, run_full_pipeline.  As in the incremental run the two     *)
(* stages are one step each.                                                *)
(***************************************************************************)
\* required_cols = ['SERVICE_ORDER'] + settings['translation']['columns_to_translate']
required_cols == <<"SERVICE_ORDER">> \o columns_to_translate

\* validate_dataframe: [col for col in required_columns if col not in df.columns]
validate_dataframe(columns, required_columns) ==
    SelectSeq(required_columns, LAMBDA c : c \notin columns)

\* mutant of validate_dataframe: no column is reported missing
NothingMissing(columns, required_columns) == <<>>

NoPair == [main |-> None, problems |-> None]

FullIdle ==
    /\ full_df = None
    /\ full_columns = {}
    /\ fpc = "idle"
    /\ full_missing = <<>>
    /\ full_translate_calls = {}
    /\ full_classify_calls = {}
    /\ df_classified = NoPair
    /\ full_saved = <<>>
    /\ full_returned = NoPair

\* the input file of a full run: it cannot be loaded, or it has rows and columns
InitFull ==
    /\ \/ full_df = None /\ full_columns = {}
       \/ /\ full_df \in { Some(rows) : rows \in InputTables }
          /\ full_columns \in ColumnSets
    /\ fpc = "load"
    /\ full_missing = <<>>
    /\ full_translate_calls = {}
    /\ full_classify_calls = {}
    /\ df_classified = NoPair
    /\ full_saved = <<>>
    /\ full_returned = NoPair

\* df = load_excel(input_file); if df is None: return None, None
FLoad ==
    /\ fpc = "load"
    /\ IF LoadFailed(full_df)
       THEN fpc' = "returned" /\ full_returned' = NoPair
       ELSE fpc' = "validate" /\ UNCHANGED full_returned
    /\ UNCHANGED <<full_df, full_columns, full_missing, full_translate_calls,
                   full_classify_calls, df_classified, full_saved>>

\* is_valid, missing = validate_dataframe(df, required_cols);
\* if not is_valid: return None, None
FValidate ==
    /\ fpc = "validate"
    /\ LET missing == validate_dataframe(full_columns, required_cols)
       IN  /\ full_missing' = missing
           /\ IF missing # <<>>
              THEN fpc' = "returned" /\ full_returned' = NoPair
              ELSE fpc' = "translate" /\ UNCHANGED full_returned
    /\ UNCHANGED <<full_df, full_columns, full_translate_calls,
                   full_classify_calls, df_classified, full_saved>>

\* df_translated = self.translator.translate(df);
\* save_excel(df_translated, f"{output_base_name}_translated.xlsx")
FTranslate ==
    /\ fpc = "translate"
    /\ full_translate_calls' = IF TranslatedColumns(full_columns) = {} THEN {}
                               ELSE Labels(full_df.rows)
    /\ full_saved' = Append(full_saved, "translated")
    /\ fpc' = "classify"
    /\ UNCHANGED <<full_df, full_columns, full_missing, full_classify_calls,
                   df_classified, full_returned>>

\* df_classified, problems_df = self.classifier.process_dataframe(df_translated)
FClassify(res) ==
    /\ fpc = "classify"
    /\ IF SubmitRaises(full_columns) /\ full_df.rows # <<>>
       THEN /\ fpc' = "raised"
            /\ UNCHANGED <<full_classify_calls, df_classified>>
       ELSE /\ full_classify_calls' = Labels(full_df.rows)
            /\ \E ordered \in CompletionOrders(full_df.rows, res) :
                  LET out == add_results_to_dataframe(full_df.rows, ordered)
                  IN  IF out.raised
                      THEN /\ fpc' = "raised"
                           /\ UNCHANGED df_classified
                      ELSE /\ fpc' = "save"
                           /\ df_classified' = [main |-> Some(out.df_result),
                                                problems |-> Some(out.problems_df)]
    /\ UNCHANGED <<full_df, full_columns, full_missing, full_translate_calls,
                   full_saved, full_returned>>

\* save_excel(df_classified, ..._final.xlsx); save_excel(problems_df,
\* ..._problems_normalized.xlsx); return df_classified, problems_df
FSave ==
    /\ fpc = "save"
    /\ full_saved' = full_saved \o <<"final", "problems_normalized">>
    /\ full_returned' = df_classified
    /\ fpc' = "returned"
    /\ UNCHANGED <<full_df, full_columns, full_missing, full_translate_calls,
                   full_classify_calls, df_classified>>

\* a run of either kind
NextPipeline ==
    \/ ILoad /\ UNCHANGED <<cvars, tvars, uvars, fvars, svars>>
    \/ IFind /\ UNCHANGED <<cvars, tvars, uvars, fvars, svars>>
    \/ ITranslate /\ UNCHANGED <<cvars, tvars, uvars, fvars, svars>>
    \/ \E res \in [1..Len(records_to_process) -> PipelineResults] :
          IClassify(res) /\ UNCHANGED <<cvars, tvars, uvars, fvars, svars>>
    \/ IMerge /\ UNCHANGED <<cvars, tvars, uvars, fvars, svars>>
    \/ ISave /\ UNCHANGED <<cvars, tvars, uvars, fvars, svars>>
    \/ INextRun /\ UNCHANGED <<cvars, tvars, uvars, fvars, svars>>
    \/ FLoad /\ UNCHANGED <<cvars, tvars, uvars, ivars, svars>>
    \/ FValidate /\ UNCHANGED <<cvars, tvars, uvars, ivars, svars>>
    \/ FTranslate /\ UNCHANGED <<cvars, tvars, uvars, ivars, svars>>
    \/ \E res \in [1..Len(full_df.rows) -> PipelineResults] :
          FClassify(res) /\ UNCHANGED <<cvars, tvars, uvars, ivars, svars>>
    \/ FSave /\ UNCHANGED <<cvars, tvars, uvars, ivars, svars>>

(***************************************************************************)
(* save_excel and the files on disk.  A path is the sequence of its pieces *)
(* ("out", ".xlsx"), so that str.replace acts on the piece '.xlsx'.        *)
(***************************************************************************)
\* number of save_excel calls in a behaviour
MaxSaves == 2
\* number of distinct seconds the clock can show
MaxClock == 2

Xlsx == ".xlsx"
Csv == ".csv"

\* datetime.now().strftime("%Y%m%d_%H%M%S") of the second t
TimestampText(t) == <<"20260101_120000", "20260101_120001", "20260101_120002",
                      "20260101_120003">>[t]

\* str(counter)
CounterText(n) == <<"1", "2", "3", "4", "5", "6", "7", "8", "9">>[n]

\* path.replace(old, new): every piece old becomes the pieces new
RECURSIVE Replace(_, _, _)
Replace(path, old, new) ==
    IF path = <<>> THEN <<>>
    ELSE (IF Head(path) = old THEN new ELSE <<Head(path)>>)
            \o Replace(Tail(path), old, new)

\* filepath.replace('.xlsx', f'_backup_{timestamp}.xlsx')
backup_path(filepath, t) ==
    Replace(filepath, Xlsx, <<"_backup_", TimestampText(t), Xlsx>>)

\* base = original_filepath.replace('.xlsx', ''); f"{base}_{counter}.xlsx"
Versioned(original_filepath, counter) ==
    Replace(original_filepath, Xlsx, <<>>) \o <<"_", CounterText(counter), Xlsx>>

\* the loop `while os.path.exists(filepath)`: the path it ends with
RECURSIVE FreePath(_, _, _, _)
FreePath(fs, original_filepath, filepath, counter) ==
    IF filepath \in DOMAIN fs
    THEN FreePath(fs, original_filepath, Versioned(original_filepath, counter), counter + 1)
    ELSE filepath

\* os.rename(src, dst) that did not raise
Rename(fs, src, dst) ==
    [g \in (DOMAIN fs \ {src}) \cup {dst} |-> IF g = dst THEN fs[src] ELSE fs[g]]

\* df.to_excel(path) / df.to_csv(path): the file is created or replaced
Write(fs, path, content) ==
    [g \in DOMAIN fs \cup {path} |-> IF g = path THEN content ELSE fs[g]]

\* the paths the callers of save_excel ask for
SavePaths == { <<"out", Xlsx>>, <<"out", "_", "1", Xlsx>> }

\* files that may exist before the first call
DiskNames == { <<"out", Xlsx>>, <<"out", "_", "1", Xlsx>>, <<"out", Csv>> }

\* the content of a file that was on disk before the first call
OldContent(name) == [old |-> name]

\* the content of the table of the n-th call
TableContent(n) == [table |-> n]

\* save_excel returned no path: not called yet, or os.rename raised
NoPath == <<>>

SaveIdle ==
    /\ disk = [g \in {} |-> OldContent(g)]
    /\ now = 0
    /\ saves = 0
    /\ save_returned = NoPath
    /\ rename_replaces = FALSE

InitSave ==
    /\ \E names \in SUBSET DiskNames : disk = [g \in names |-> OldContent(g)]
    /\ now = 1
    /\ saves = 0
    /\ save_returned = NoPath
    /\ rename_replaces \in BOOLEAN

\* save_excel(df, filepath, create_backup) called in the second t; excel_fails
\* is whether df.to_excel raises
SaveExcel(filepath, create_backup, excel_fails, t) ==
    /\ saves < MaxSaves
    /\ t \in {now, now + 1}
    /\ t <= MaxClock
    /\ now' = t
    /\ saves' = saves + 1
    /\ LET backs_up == create_backup /\ filepath \in DOMAIN disk
           bpath == backup_path(filepath, t)
           rename_raises == backs_up /\ bpath \in DOMAIN disk /\ ~rename_replaces
           renamed == IF backs_up THEN Rename(disk, filepath, bpath) ELSE disk
           free == FreePath(renamed, filepath, filepath, 1)
           csv_path == Replace(free, Xlsx, <<Csv>>)
           written == IF excel_fails THEN csv_path ELSE free
       IN  IF rename_raises
           THEN /\ disk' = disk
                /\ save_returned' = NoPath
           ELSE /\ disk' = Write(renamed, written, TableContent(saves + 1))
                /\ save_returned' = written
    /\ UNCHANGED rename_replaces

NextSave ==
    \E filepath \in SavePaths, create_backup \in BOOLEAN, excel_fails \in BOOLEAN,
       t \in 1..MaxClock :
       SaveExcel(filepath, create_backup, excel_fails, t)
          /\ UNCHANGED <<cvars, tvars, uvars, ivars, fvars>>

Init == InitClassifier /\ TranslatorIdle /\ UtilsIdle /\ IncrementalIdle /\ FullIdle /\ SaveIdle

Spec == Init /\ [][Next]_vars

\* the responses drawn when termination is checked: a well formed one and one
\* on which the materializer raises
LiveResponses == {TwoProblems, TopLevelList}

\* the steps of the classification stage, the calls answering from LiveResponses
NextLive ==
    \/ Submit /\ UNCHANGED <<tvars, uvars, ivars, fvars, svars>>
    \/ AllSubmitted /\ UNCHANGED <<tvars, uvars, ivars, fvars, svars>>
    \/ \E w \in 1..MaxWorkersCfg : StartTask(w) /\ UNCHANGED <<tvars, uvars, ivars, fvars, svars>>
    \/ \E idx \in Labels(df) : CallRaises(idx) /\ UNCHANGED <<tvars, uvars, ivars, fvars, svars>>
    \/ \E idx \in Labels(df), r \in LiveResponses : CallReturns(idx, r) /\ UNCHANGED <<tvars, uvars, ivars, fvars, svars>>
    \/ \E idx \in Labels(df) : Collect(idx) /\ UNCHANGED <<tvars, uvars, ivars, fvars, svars>>
    \/ Materialize /\ UNCHANGED <<tvars, uvars, ivars, fvars, svars>>

\* the main thread of process_dataframe takes its next step in the submit loop
\* or in the as_completed loop
MainThread ==
    /\ \/ Submit
       \/ AllSubmitted
       \/ \E idx \in Labels(df) : Collect(idx)
    /\ UNCHANGED <<tvars, uvars, ivars, fvars, svars>>

\* a pool thread takes the next queued task
PoolThread ==
    /\ \E w \in 1..MaxWorkersCfg : StartTask(w)
    /\ UNCHANGED <<tvars, uvars, ivars, fvars, svars>>

\* the classification call in flight for idx returns or raises
CallEnds(idx) ==
    /\ idx \in Labels(df)
    /\ \/ CallRaises(idx)
       \/ \E r \in LiveResponses : CallReturns(idx, r)
    /\ UNCHANGED <<tvars, uvars, ivars, fvars, svars>>

\* the main thread has left _add_results_to_dataframe
MaterializeTaken == pc = "collect" /\ pc' # "collect"

\* The threads are scheduled: the main thread and the pool threads take the
\* steps they can take, and every classification call eventually returns or
\* raises (session.post and json.loads do not block for ever).  The last
\* conjunct is WF_vars(Materialize), with ENABLED written as the guard of
\* Materialize.
Fairness ==
    /\ WF_vars(MainThread)
    /\ WF_vars(PoolThread)
    /\ \A idx \in 0..(NumRecords - 1) : WF_vars(CallEnds(idx))
    /\ ([]<>(~MaterializeReady) \/ []<><<MaterializeTaken>>_vars)

SpecLive == Init /\ [][NextLive]_vars /\ Fairness

InitTranslate ==
    InitTranslator /\ ClassifierIdle /\ UtilsIdle /\ IncrementalIdle /\ FullIdle /\ SaveIdle

SpecTranslate == InitTranslate /\ [][NextTranslate]_vars

InitHelpers ==
    InitUtils /\ ClassifierIdle /\ TranslatorIdle /\ IncrementalIdle /\ FullIdle /\ SaveIdle

SpecUtils == InitHelpers /\ [][NextUtils]_vars

InitRun ==
    InitIncremental /\ ClassifierIdle /\ TranslatorIdle /\ UtilsIdle /\ FullIdle /\ SaveIdle

SpecIncremental == InitRun /\ [][NextIncremental]_vars

\* a full run or a chain of incremental runs
InitPipeline ==
    /\ ClassifierIdle /\ TranslatorIdle /\ UtilsIdle /\ SaveIdle
    /\ \/ InitIncremental /\ FullIdle
       \/ InitFull /\ IncrementalIdle

SpecPipeline == InitPipeline /\ [][NextPipeline]_vars

InitDisk ==
    /\ InitSave
    /\ ClassifierIdle /\ TranslatorIdle /\ UtilsIdle /\ IncrementalIdle /\ FullIdle

SpecSave == InitDisk /\ [][NextSave]_vars

(***************************************************************************)
(* Properties of the classification stage.                                 *)
(***************************************************************************)
\* classification calls issued so far for the row labelled idx
Calls(idx) == Len(outcomes[idx]) + (IF st[idx] = "running" THEN 1 ELSE 0)

Returned(idx) == st[idx] \in {"finished", "collected"}

\* every one of the max_attempts calls of idx raised
FailedAll(idx) == outcomes[idx] = [n \in 1..max_attempts |-> "F"]

\* the normalized rows of the row labelled idx
RowsOf(table, idx) == SelectSeq(table, LAMBDA r : r.Row_Index = idx)

InFlight == { i \in Labels(df) : st[i] = "running" }

\* C1: for every table and every behaviour of the service the stage returns
\* normally (no exception escapes) with a result for every submitted record.
C1_TotalFunction ==
    /\ pc # "raised"
    /\ pc = "done" =>
         \A k \in 1..Len(df) :
            \E i \in 1..Len(results) :
               /\ results[i].idx = df[k].idx
               /\ results[i].result # JNull

\* C2: a record gets at least 1 and at most max_attempts calls; a call is
\* followed by another call of the same record only if it raised.
C2_AttemptBounds ==
    \A idx \in Labels(df) :
       /\ Calls(idx) <= max_attempts
       /\ Returned(idx) => Calls(idx) >= 1
       /\ \A n \in 1..Len(outcomes[idx]) : n < Calls(idx) => outcomes[idx][n] = "F"

C2_Witness ==
    \E idx \in Labels(df) : Returned(idx) /\ outcomes[idx] = <<"F", "F", "S">>

\* C3: a record whose 3 attempts all failed has Total_Problems = 0,
\* Overall_Confidence = "low" and exactly one normalized row, Unknown with
\* Confidence "low"; and process_single_call gives a record up only after its
\* max_attempts-th attempt failed.
C3_Degraded ==
    /\ pc = "done" =>
         \A k \in 1..Len(df) :
            FailedAll(df[k].idx) =>
               /\ df_result[k].Total_Problems = 0
               /\ df_result[k].Overall_Confidence = "low"
               /\ RowsOf(problems_df, df[k].idx) =
                    <<[SERVICE_ORDER |-> df[k].SERVICE_ORDER, Row_Index |-> df[k].idx,
                       Problem_Number |-> 1, Part |-> "Unknown",
                       Failure_Mode |-> "Unknown", Fix |-> "Unknown",
                       Confidence |-> "low", Supporting_Text |-> ""]>>
    /\ \A idx \in Labels(df) :
          (Returned(idx) /\ outcomes[idx][Len(outcomes[idx])] = "F") => FailedAll(idx)

C3_Witness ==
    pc = "done" /\ \E idx \in Labels(df) : FailedAll(idx)

\* C4: a malformed response (not JSON, missing fields, a top level that is no
\* object, null problems, a problem entry that is no object) never makes an
\* exception escape the stage, and the record still has its normalized row.
C4_MalformedHandled ==
    /\ pc # "raised"
    /\ pc = "done" =>
         \A k \in 1..Len(df) : Len(RowsOf(problems_df, df[k].idx)) >= 1

\* what the stage returns for the row labelled b: its enriched row and its
\* normalized rows, or nothing when the stage raised
OutputFor(out, b) ==
    IF out.raised THEN <<>>
    ELSE <<Loc(out.df_result, b), RowsOf(out.problems_df, b)>>

\* the results dict of the run in which the calls of a ended with result r
\* and every other record's calls answered as in this run
OtherRun(a, r) ==
    [i \in 1..Len(results) |->
       IF results[i].idx = a THEN [idx |-> a, result |-> r] ELSE results[i]]

\* C5: two runs that differ only in the service's answers to record a give
\* every other record b the same result and the same materialized rows.
C5_Isolation ==
    pc \in {"done", "raised"} =>
       \A a \in Labels(df), r \in Responses \cup {DegradedResult} :
          \A b \in Labels(df) \ {a} :
             OutputFor(add_results_to_dataframe(df, OtherRun(a, r)), b)
               = OutputFor([raised |-> pc = "raised", df_result |-> df_result,
                            problems_df |-> problems_df], b)

\* C6: whatever the completion order, the enriched table has the input's rows
\* in the input's order, each with the columns built from its own result.
C6_AssemblyByKey ==
    pc = "done" =>
       /\ Len(df_result) = Len(df)
       /\ \A k \in 1..Len(df) :
             /\ df_result[k].idx = df[k].idx
             /\ df_result[k].SERVICE_ORDER = df[k].SERVICE_ORDER
             /\ df_result[k] =
                  IF Skipped(future_result[df[k].idx])
                  THEN InitialColumns(df[k])
                  ELSE Columns(df[k], future_result[df[k].idx])

\* the second submitted row was collected before the first, with another result
C6_Witness ==
    /\ pc = "done"
    /\ Len(results) >= 2
    /\ results[1].idx > results[2].idx
    /\ results[1].result # results[2].result

\* C7: at most max_workers classification calls are in flight, and no pool
\* thread runs two records at once.
C7_BoundedConcurrency ==
    /\ Cardinality(InFlight) <= max_workers
    /\ \A i \in InFlight : workerOf[i] \in 1..max_workers
    /\ \A i, j \in InFlight : i # j => workerOf[i] # workerOf[j]

\* every pool thread is busy while a submitted row waits in the queue
C7_Witness ==
    /\ Cardinality(InFlight) = max_workers
    /\ \E i \in Labels(df) : st[i] = "queued"

\* number of problems in the result of the row labelled idx
ProblemCount(idx) ==
    IF Skipped(future_result[idx]) THEN 0 ELSE Len(ProblemsOf(future_result[idx]))

\* C8: the normalized table holds exactly max(1, n) rows for every record,
\* numbered 1..n in the service's order with the record's SERVICE_ORDER, or
\* the single Unknown/low placeholder row when n = 0.
C8_NormalizedRows ==
    pc = "done" =>
       \A k \in 1..Len(df) :
          LET rows == RowsOf(problems_df, df[k].idx)
              n == ProblemCount(df[k].idx)
          IN  /\ Len(rows) = (IF n = 0 THEN 1 ELSE n)
              /\ \A i \in 1..Len(rows) :
                    /\ rows[i].Problem_Number = i
                    /\ rows[i].SERVICE_ORDER = df[k].SERVICE_ORDER
              /\ n = 0 =>
                    /\ rows[1].Part = "Unknown"
                    /\ rows[1].Failure_Mode = "Unknown"
                    /\ rows[1].Fix = "Unknown"
                    /\ rows[1].Confidence = "low"

(***************************************************************************)
(* Properties of the translation stage.                                    *)
(***************************************************************************)
\* the translate_text calls issued for the text v of column c
CallsFor(c, v) == { j \in 1..Len(tcalls) : tcalls[j].col = c /\ tcalls[j].text = v }

\* the loop over columns_to_process is past column c
Finished(c) ==
    /\ \E k \in 1..Len(columns_to_process) : columns_to_process[k] = c
    /\ \/ tpc = "done"
       \/ /\ tpc \in {"column", "batch", "gather", "sleep"}
          /\ \E k \in 1..Len(columns_to_process) :
                columns_to_process[k] = c /\ k < col_i

\* the distinct values of column c that are neither missing nor blank
NonBlankValues(c) ==
    { tdf[c][r] : r \in 1..Len(tdf[c]) } \ {NA, "", " "}

\* C9: the service is called exactly once for each distinct non-blank value of
\* a translated column, never for anything else, and the one result is what
\* every cell holding that value gets in <col>_EN.
C9_TranslateOnce ==
    /\ \A j, k \in 1..Len(tcalls) :
          (tcalls[j].col = tcalls[k].col /\ tcalls[j].text = tcalls[k].text) => j = k
    /\ \A j \in 1..Len(tcalls) : tcalls[j].text \in NonBlankValues(tcalls[j].col)
    /\ \A c \in DOMAIN tdf :
          Finished(c) =>
             \A v \in NonBlankValues(c) :
                /\ Cardinality(CallsFor(c, v)) = 1
                /\ \A j \in CallsFor(c, v) :
                      \A r \in 1..Len(tdf[c]) :
                         tdf[c][r] = v =>
                            tdf_result[EN(c)][r] =
                               (IF tcalls[j].outcome = "raised" THEN v ELSE tcalls[j].outcome)

\* a finished column in which two cells hold the same translated text
C9_Witness ==
    \E c \in DOMAIN tdf :
       /\ Finished(c)
       /\ \E r1, r2 \in 1..Len(tdf[c]) :
             /\ r1 # r2
             /\ tdf[c][r1] = tdf[c][r2]
             /\ tdf[c][r1] \in NonBlankValues(c)
             /\ tdf_result[EN(c)][r1] \in Translations

\* C10: a blank (empty or whitespace only) or missing cell of a translated
\* column has the empty string in <col>_EN, and no call is issued for it.
C10_BlankToEmpty ==
    \A c \in DOMAIN tdf :
       (Finished(c) /\ EN(c) \in DOMAIN tdf_result) =>
          \A r \in 1..Len(tdf[c]) :
             tdf[c][r] \in {NA, "", " "} =>
                /\ tdf_result[EN(c)][r] = ""
                /\ CallsFor(c, tdf[c][r]) = {}

\* the calls issued for column c in the batch that starts at offset b
CallsOfBatch(c, b) ==
    { j \in 1..Len(tcalls) : tcalls[j].col = c /\ tcalls[j].batch = b }

\* C11: a value whose request failed is translated by its own text; the other
\* values of its batch keep what their requests returned, and the values of the
\* later batches are still requested and written.
C11_FallbackToOriginal ==
    \A c \in DOMAIN tdf :
       Finished(c) =>
          /\ \A v \in NonBlankValues(c) : CallsFor(c, v) # {}
          /\ \A j \in 1..Len(tcalls) :
                tcalls[j].col = c =>
                   \A r \in 1..Len(tdf[c]) :
                      tdf[c][r] = tcalls[j].text =>
                         /\ tcalls[j].outcome = "raised" =>
                               tdf_result[EN(c)][r] = tcalls[j].text
                         /\ tcalls[j].outcome \in Translations =>
                               tdf_result[EN(c)][r] = tcalls[j].outcome

\* a finished column whose first request failed and kept its text, while a
\* request of a later batch returned a translation that was written
C11_Witness ==
    \E c \in DOMAIN tdf :
       /\ Finished(c)
       /\ \E j, k \in 1..Len(tcalls) :
             /\ tcalls[j].col = c /\ tcalls[k].col = c
             /\ tcalls[j].batch < tcalls[k].batch
             /\ tcalls[j].outcome = "raised"
             /\ tcalls[k].outcome \in Translations
             /\ \E r1, r2 \in 1..Len(tdf[c]) :
                   /\ tdf[c][r1] = tcalls[j].text
                   /\ tdf_result[EN(c)][r1] = tcalls[j].text
                   /\ tdf[c][r2] = tcalls[k].text
                   /\ tdf_result[EN(c)][r2] = tcalls[k].outcome

\* C12: never more than batch_size requests are in flight; the requests in
\* flight all belong to the newest batch, so a batch starts only when the one
\* before it is complete; one delay has been taken for each batch before the
\* current one, and a delay is only ever taken when another batch follows.
C12_BatchDiscipline ==
    /\ Cardinality(Pending) <= batch_size
    /\ \A j \in Pending :
          /\ tpc = "gather"
          /\ tcalls[j].col = columns_to_process[col_i]
          /\ tcalls[j].batch = batch_i
    /\ \A j, k \in 1..Len(tcalls) :
          (j < k /\ <<tcalls[j].col, tcalls[j].batch>> # <<tcalls[k].col, tcalls[k].batch>>)
             => tcalls[j].outcome # "pending"
    /\ tpc \in {"batch", "gather", "sleep"} => sleeps * batch_size = batch_i
    /\ tpc = "sleep" => batch_i + batch_size < Len(unique_values)

\* the second batch of a column is in flight after a full first batch of two
\* requests and one delay
C12_Witness ==
    /\ tpc = "gather"
    /\ batch_size = 2
    /\ batch_i = 2
    /\ sleeps = 1
    /\ Pending # {}
    /\ Cardinality(CallsOfBatch(columns_to_process[col_i], 0)) = 2

\* C13: when translate is done, every configured column of the input has its
\* <col>_EN column in the output.
C13_OneColumnPerInput ==
    tpc = "done" =>
       \A k \in 1..Len(columns_to_process) :
          EN(columns_to_process[k]) \in DOMAIN tdf_result

\* C14: when translate is done, every column of the input is in the output with
\* the values it had, and the output has no other columns than the input's and
\* the <col>_EN columns.
C14_InputColumnsKept ==
    tpc = "done" =>
       /\ \A c \in DOMAIN tdf : tdf_result[c] = tdf[c]
       /\ DOMAIN tdf_result \subseteq
             DOMAIN tdf \cup { EN(columns_to_process[k]) : k \in 1..Len(columns_to_process) }

(***************************************************************************)
(* Properties of find_new_service_orders and merge_processed_data.         *)
(***************************************************************************)
\* the rows of a table without their index label
Cells(row) == [c \in DOMAIN row \ {"idx"} |-> row[c]]

\* C15: find_new_service_orders returns the rows of new whose key is no key of
\* processed (every row when processed is None or empty), as they are in new
\* (label and every column) and in new's order.
C15_FindNew ==
    upc = "found" =>
       uout = SelectSeq(arg_new,
                        LAMBDA r : r.SERVICE_ORDER \notin Keys(arg_processed.rows))

\* a call that returned some rows of new and left others out
C15_Witness ==
    /\ upc = "found"
    /\ arg_processed.rows # <<>>
    /\ uout # <<>>
    /\ Len(uout) < Len(arg_new)

\* C19: merge_processed_data(A, B) has len(A) + len(B) rows (A = None counts
\* as no rows) and its keys are the keys of A together with the keys of B.
C19_MergeSize ==
    upc = "merged" =>
       /\ Len(uout) = Len(arg_processed.rows) + Len(arg_new)
       /\ Keys(uout) = Keys(arg_processed.rows) \cup Keys(arg_new)

\* a merge of two tables that share a key
C19_Witness ==
    /\ upc = "merged"
    /\ Keys(arg_processed.rows) \cap Keys(arg_new) # {}

\* C20: merge_processed_data with a non-empty existing table returns existing's
\* rows, as they were and in their order, and then incoming's rows with the
\* values they had, in their order.
C20_MergeOrder ==
    (upc = "merged" /\ arg_processed.rows # <<>>) =>
       /\ Len(uout) = Len(arg_processed.rows) + Len(arg_new)
       /\ \A k \in 1..Len(arg_processed.rows) : uout[k] = arg_processed.rows[k]
       /\ \A k \in 1..Len(arg_new) :
             \A c \in DOMAIN Cells(arg_new[k]) :
                uout[Len(arg_processed.rows) + k][c] = arg_new[k][c]

\* a merge of two existing rows with two incoming rows of other keys
C20_Witness ==
    /\ upc = "merged"
    /\ Len(arg_processed.rows) = 2
    /\ Len(arg_new) = 2
    /\ Keys(arg_processed.rows) \cap Keys(arg_new) = {}
    /\ Len(uout) = 4

(***************************************************************************)
(* Properties of the incremental run.                                      *)
(***************************************************************************)
\* the new file was loaded and every one of its keys is a key of processed
AllProcessed ==
    /\ new_df.ok
    /\ Keys(new_df.rows) \subseteq Keys(processed_df.rows)

\* the natural key of the row of the new file labelled idx
KeyOf(idx) == Loc(new_df.rows, idx).SERVICE_ORDER

\* C16: a run whose new keys are all keys of processed hands no record to the
\* translator or the classifier, merges and saves nothing, and returns the
\* processed table as it was loaded (with no problems table).
C16_ShortCircuit ==
    (ipc # "idle" /\ AllProcessed) =>
       /\ ipc \in {"load", "find", "returned"}
       /\ translate_calls = {}
       /\ classify_calls = {}
       /\ combined_df = <<>> /\ combined_problems_df = <<>>
       /\ saved = <<>>
       /\ ipc = "returned" => returned = [main |-> processed_df, problems |-> None]

\* a first run that returned at once: the new file has rows, all of known keys
C16_Witness ==
    /\ run = 1
    /\ ipc = "returned"
    /\ AllProcessed
    /\ new_df.rows # <<>>
    /\ returned.main = processed_df

\* C17: in the run that follows a run which merged and saved, on the same new
\* file and the merged table, the key difference is empty: there are no
\* records to process.
C17_Idempotent ==
    (run > 1 /\ prev_merged /\ same_new) =>
       /\ AllProcessed
       /\ records_to_process = <<>>
       /\ ipc \in {"load", "find", "returned"}

\* the second run of a chain returned after its first run processed a record
C17_Witness ==
    /\ run = 2
    /\ prev_merged
    /\ same_new
    /\ ipc = "returned"
    /\ new_df.rows # <<>>
    /\ Len(processed_df.rows) >= Len(new_df.rows)

\* C18: every record handed to the translator or to the classifier has a key
\* that is no key of the processed table.
C18_OnlyNewKeys ==
    \A idx \in translate_calls \cup classify_calls :
       KeyOf(idx) \notin Keys(processed_df.rows)

\* a run that classified a record of a new key while another record of the
\* new file had a processed key
C18_Witness ==
    /\ classify_calls # {}
    /\ translate_calls # {}
    /\ \E k \in 1..Len(new_df.rows) :
          new_df.rows[k].SERVICE_ORDER \in Keys(processed_df.rows)

\* C21: in a chain of runs on their own output the processed table never loses
\* a key: whenever the processed table changes, every key it had is a key of
\* the table that replaces it, and a run that returns a table returns one with
\* every key of the processed table it started from.
C21_KeysGrow ==
    [][ /\ Keys(processed_df.rows) \subseteq Keys(processed_df'.rows)
        /\ (ipc' = "returned" /\ returned'.main.ok) =>
              Keys(processed_df.rows) \subseteq Keys(returned'.main.rows) ]_vars

\* the second run of a chain merged again, as the first did: the table it
\* returns has the keys of its processed table and a further one
C21_Witness ==
    /\ run = 2
    /\ prev_merged
    /\ ipc = "returned"
    /\ saved # <<>>
    /\ Keys(processed_df.rows) # Keys(returned.main.rows)
    /\ Keys(processed_df.rows) # {}

(***************************************************************************)
(* Properties of the runs on input that is unfit.                          *)
(***************************************************************************)
\* the table was loaded and lacks SERVICE_ORDER or a configured text column
LacksRequired(file, columns) ==
    file.ok /\ validate_dataframe(columns, required_cols) # <<>>

\* C22: a run whose input table lacks a required column ends before the
\* translation stage: it hands no record to the translator or the classifier
\* and writes no file; a full run returns (None, None) and has reported the
\* missing columns.
C22_MissingColumns ==
    /\ (fpc # "idle" /\ LacksRequired(full_df, full_columns)) =>
          /\ full_translate_calls = {} /\ full_classify_calls = {}
          /\ full_saved = <<>>
          /\ fpc \in {"load", "validate", "returned"}
          /\ fpc = "returned" =>
                /\ full_returned = NoPair
                /\ full_missing = validate_dataframe(full_columns, required_cols)
    /\ (ipc # "idle" /\ LacksRequired(new_df, new_columns)) =>
          /\ translate_calls = {} /\ classify_calls = {}
          /\ saved = <<>>
          /\ ipc \in {"load", "find", "returned"}

\* C23: a run whose input file cannot be loaded returns (None, None) as its
\* first step, with no record handed to the translator or the classifier and
\* no file written.
C23_LoadFailure ==
    /\ (fpc # "idle" /\ ~full_df.ok) =>
          /\ fpc \in {"load", "returned"}
          /\ full_translate_calls = {} /\ full_classify_calls = {}
          /\ full_saved = <<>>
          /\ fpc = "returned" => full_returned = NoPair
    /\ (ipc # "idle" /\ ~new_df.ok) =>
          /\ ipc \in {"load", "returned"}
          /\ translate_calls = {} /\ classify_calls = {}
          /\ saved = <<>>
          /\ ipc = "returned" => returned = NoPair

\* an incremental run returned because its new file could not be loaded, while
\* the processed file could
C23_Witness ==
    /\ ipc = "returned"
    /\ ~new_df.ok
    /\ processed_df.rows # <<>>
    /\ returned = NoPair

(***************************************************************************)
(* Properties of the views the materializer builds of one record.          *)
(***************************************************************************)
\* the stage returned and the row at position k has a result that was not
\* skipped
Materialized(k) ==
    /\ pc = "done"
    /\ k \in 1..Len(df)
    /\ ~Skipped(future_result[df[k].idx])

\* the problems of the result of the row at position k
ProblemsAt(k) == ProblemsOf(future_result[df[k].idx])

\* the smaller of two numbers
Min(a, b) == IF a < b THEN a ELSE b

\* C24: slot i of a record holds part, failure mode, fix and confidence of its
\* i-th problem for i up to min(n, 3), the slots above n are empty, and every
\* problem, those after the third too, is in the concatenated columns, in the
\* JSON column and in the normalized rows.
C24_FixedSlots ==
    \A k \in 1..Len(df) :
       Materialized(k) =>
          LET p == ProblemsAt(k)
              n == Len(p)
              row == df_result[k]
              rows == RowsOf(problems_df, df[k].idx)
          IN  /\ DOMAIN row.Slots = 1..MAX_PROBLEMS
              /\ \A i \in 1..Min(n, MAX_PROBLEMS) :
                    /\ row.Slots[i].Part = Get(p[i], "part", "")
                    /\ row.Slots[i].Failure_Mode = Get(p[i], "failure_mode", "")
                    /\ row.Slots[i].Fix = Get(p[i], "fix", "")
                    /\ row.Slots[i].Confidence = Get(p[i], "confidence", "")
              /\ \A i \in (n + 1)..MAX_PROBLEMS : row.Slots[i] = EmptySlot
              /\ n > MAX_PROBLEMS =>
                    /\ row.Part_Assembly_Concat = JoinSep(Field(p, "part"))
                    /\ json_loads(row.All_Problems_JSON).items = p
                    /\ Len(rows) = n
                    /\ \A i \in 1..n : rows[i].Part = Get(p[i], "part", "")

\* a record with four problems: three in the slots, the fourth in the other views
C24_Witness ==
    \E k \in 1..Len(df) :
       /\ Materialized(k)
       /\ future_result[df[k].idx] = FourProblems
       /\ df_result[k].Slots[3].Part = "Belt"
       /\ df_result[k].Part_Assembly_Concat = "Pump | Valve | Belt | Fan"
       /\ RowsOf(problems_df, df[k].idx)[4].Part = "Fan"

\* C25: the four concatenated columns are the fields of p1..pn joined with
\* " | " in order, the Primary_* columns are the fields of p1 and equal the
\* slot-1 columns, and all are empty when n = 0; Pump then Valve give
\* Primary_Part "Pump", Part_Assembly_Concat "Pump | Valve", Part_1 "Pump",
\* Part_2 "Valve".
C25_ConcatAndPrimary ==
    \A k \in 1..Len(df) :
       Materialized(k) =>
          LET p == ProblemsAt(k)
              row == df_result[k]
              primary == [Part |-> row.Primary_Part, Failure_Mode |-> row.Primary_Failure,
                          Fix |-> row.Primary_Fix, Confidence |-> row.Primary_Confidence]
          IN  /\ p = <<>> =>
                    /\ primary = EmptySlot
                    /\ row.Part_Assembly_Concat = "" /\ row.Failure_Mode_Concat = ""
                    /\ row.Fix_Concat = "" /\ row.Confidence_Concat = ""
              /\ p # <<>> =>
                    /\ primary = row.Slots[1]
                    /\ primary.Part = Get(p[1], "part", "")
                    /\ primary.Failure_Mode = Get(p[1], "failure_mode", "")
                    /\ primary.Fix = Get(p[1], "fix", "")
                    /\ primary.Confidence = Get(p[1], "confidence", "")
              /\ p = <<Pump, Valve>> =>
                    /\ row.Part_Assembly_Concat = "Pump | Valve"
                    /\ row.Failure_Mode_Concat = "Leak | Stuck"
                    /\ row.Fix_Concat = "Seal replaced | Lubricated"
                    /\ row.Confidence_Concat = "high | medium"
                    /\ row.Slots[1].Part = "Pump" /\ row.Slots[2].Part = "Valve"
              /\ p = <<Pump, Valve, Belt, Fan>> =>
                    row.Failure_Mode_Concat = "Leak | Stuck | Worn | Noise"
              /\ p = <<Motor>> =>
                    row.Part_Assembly_Concat = "Motor" /\ row.Fix_Concat = ""

\* a record with the problems Pump then Valve
C25_Witness ==
    \E k \in 1..Len(df) :
       /\ Materialized(k)
       /\ ProblemsAt(k) = <<Pump, Valve>>
       /\ df_result[k].Primary_Part = "Pump"

\* C26: parsing the All_Problems_JSON text of a record with a result gives the
\* list of problems of its result, the one its other views are built from.
C26_JsonRoundTrip ==
    \A k \in 1..Len(df) :
       Materialized(k) =>
          /\ json_loads(df_result[k].All_Problems_JSON) = JList(ProblemsAt(k))
          /\ df_result[k].Slots = [i \in 1..MAX_PROBLEMS |-> Slot(ProblemsAt(k), i)]
          /\ RowsOf(problems_df, df[k].idx) = NormalizedRecords(df[k], future_result[df[k].idx])

\* two records: one with four problems, one with a problem that lacks fields
C26_Witness ==
    \E k, m \in 1..Len(df) :
       /\ Materialized(k) /\ Materialized(m)
       /\ ProblemsAt(k) = <<Pump, Valve, Belt, Fan>>
       /\ ProblemsAt(m) = <<Motor>>
       /\ Len(df_result[k].All_Problems_JSON) > Len(df_result[m].All_Problems_JSON)

(***************************************************************************)
(* Properties of the problems table of the incremental run.                *)
(***************************************************************************)
\* the run processed at least one record, merged, saved and returned
MergedRun == ipc = "returned" /\ saved # <<>>

\* a row of the enriched main table (it has the column Total_Problems filled)
IsMainRow(row) == "Total_Problems" \in DOMAIN row /\ row.Overall_Confidence # NA

\* a normalized problem row of the record with this key
IsProblemRowOf(row, key) ==
    /\ "Row_Index" \in DOMAIN row
    /\ row.Part # NA
    /\ row.SERVICE_ORDER = key

\* C27: the combined problems table a run returns after processing a record is
\* the problems table of the processed dataset followed by the problems rows
\* of the new records, whatever the name of the processed file, and holds no
\* row of the main table. Stated for the first run of a chain, whose processed
\* dataset has its problems table in problems_on_disk.
C27_ProblemsMerge ==
    (MergedRun /\ run = 1) =>
       /\ returned.problems.ok
       /\ Len(returned.problems.rows) = Len(problems_on_disk.rows) + Len(new_problems_df)
       /\ \A k \in 1..Len(returned.problems.rows) :
             ~IsMainRow(returned.problems.rows[k])

\* every new record of the run got a classification result (none was skipped)
NoneSkipped ==
    \A k \in 1..Len(new_classified) : new_classified[k].Overall_Confidence # ""

\* C28: after a run that merged, every key of the combined main table has a
\* normalized problem row in the combined problems table, also when the
\* problems table of the processed dataset could not be loaded. Stated for
\* runs on a processed file named *_final.xlsx in which no record was skipped.
C28_KeysHaveProblemRows ==
    (MergedRun /\ final_name /\ NoneSkipped) =>
       \A key \in Keys(returned.main.rows) :
          \E k \in 1..Len(returned.problems.rows) :
             IsProblemRowOf(returned.problems.rows[k], key)

(***************************************************************************)
(* Order of the normalized problems table.                                 *)
(***************************************************************************)
\* the per-record results of the stage, listed in the order of the table
ResultsInTableOrder ==
    [k \in 1..Len(df) |-> [idx |-> df[k].idx, result |-> future_result[df[k].idx]]]

\* C29: for given per-record results the normalized problems table is the one
\* built in the order of the table, whichever record's call finished first.
\* Stated for tables whose row labels are distinct.
C29_OrderIndependent ==
    (pc = "done" /\ Cardinality(Labels(df)) = Len(df)) =>
       problems_df = Approach4(df, ResultsInTableOrder)

(***************************************************************************)
(* Termination of the classification stage.                                *)
(***************************************************************************)
\* the record's last call returned a result
Succeeded(i) ==
    /\ Returned(i)
    /\ outcomes[i] # <<>>
    /\ outcomes[i][Len(outcomes[i])] = "S"

\* the record's last permitted call failed and it carries the degraded result
Degraded(i) ==
    /\ Returned(i)
    /\ FailedAll(i)
    /\ future_result[i] = DegradedResult

\* the record labelled i (if the table has it) was handed to the executor
Submitted(i) == IF i \in Labels(df) THEN st[i] # "new" ELSE FALSE

Terminal(i) == IF i \in Labels(df) THEN Succeeded(i) \/ Degraded(i) ELSE FALSE

\* process_dataframe has left the pool and the materializer (returned or raised)
StageEnded == pc \in {"done", "raised"}

\* C30: when every classification call eventually returns or raises, every
\* submitted record eventually is Succeeded or Degraded, a record that is so
\* stays so and issues no further call, and the stage eventually ends.
C30_Termination ==
    /\ \A i \in 0..(NumRecords - 1) :
          [](Submitted(i) => <>Terminal(i))
    /\ [][\A i \in Labels(df) :
            Terminal(i) => (Terminal(i)' /\ outcomes'[i] = outcomes[i])]_vars
    /\ <>StageEnded

\* the stage has ended with one record succeeded at its first call and another
\* degraded after max_attempts failed calls
C30_Witness ==
    /\ StageEnded
    /\ \E i, j \in Labels(df) :
          /\ Succeeded(i) /\ Len(outcomes[i]) = 1
          /\ Degraded(j)

(***************************************************************************)
(* The stage waits for all its workers.                                    *)
(***************************************************************************)
\* _add_results_to_dataframe was entered: the stage returned or raised, or an
\* output row exists
MaterializationStarted ==
    \/ pc \in {"done", "raised"}
    \/ df_result # <<>>
    \/ problems_df # <<>>

\* a step that writes the dict results is a step of the collecting main thread:
\* it is in the as_completed loop, it adds the value of one finished future and
\* no pool thread moves in that step
WrittenByCollector ==
    results' # results =>
       /\ pc = "collect"
       /\ \E idx \in Labels(df) :
             /\ st[idx] = "finished"
             /\ st' = [st EXCEPT ![idx] = "collected"]
             /\ results' = Append(results, [idx |-> idx, result |-> future_result[idx]])
       /\ UNCHANGED <<workerOf, attempts, outcomes, future_result>>

\* C31: the tables are built only after every submitted record's worker has
\* finished and its future was collected, so no output row exists while a
\* classification call is in flight; the dict results is written only by the
\* collecting thread.
C31_WaitForAll ==
    /\ [](MaterializationStarted =>
             /\ submitted = Len(df)
             /\ InFlight = {}
             /\ \A i \in Labels(df) : st[i] = "collected" /\ workerOf[i] = 0)
    /\ [][WrittenByCollector]_vars

\* a pool of two threads returned its tables for two records, the second
\* record's result collected first
C31_Witness ==
    /\ pc = "done"
    /\ max_workers = 2
    /\ Len(df) = 2
    /\ Len(df_result) = 2
    /\ Len(results) = 2
    /\ results[1].idx = df[2].idx
    /\ problems_df # <<>>

(***************************************************************************)
(* Natural keys of the combined main table.                                *)
(***************************************************************************)
\* no two rows of the table have the same natural key
NoDuplicateKeys(rows) ==
    \A j, k \in 1..Len(rows) : rows[j].SERVICE_ORDER = rows[k].SERVICE_ORDER => j = k

\* C32: a run whose processed table and new table have no duplicate key
\* returns a main table without duplicate key; the processed table of a later
\* run of a chain is the table the run before returned, read back from disk.
C32_NoDuplicateKeys ==
    (/\ ipc = "returned"
     /\ returned.main.ok
     /\ NoDuplicateKeys(new_df.rows)
     /\ NoDuplicateKeys(processed_df.rows)) =>
        NoDuplicateKeys(returned.main.rows)

\* the second run of a chain merged a further key into the output of the
\* first, which had merged too: three distinct keys
C32_Witness ==
    /\ run = 2
    /\ prev_merged
    /\ ipc = "returned"
    /\ saved # <<>>
    /\ NoDuplicateKeys(new_df.rows)
    /\ NoDuplicateKeys(processed_df.rows)
    /\ Len(processed_df.rows) = 2
    /\ Len(returned.main.rows) = 3

(***************************************************************************)
(* Consistency of the views of one record.                                 *)
(***************************************************************************)
\* the normalized rows of the record that are no placeholder
ProblemRows(k) ==
    IF ProblemsAt(k) = <<>> THEN <<>> ELSE RowsOf(problems_df, df[k].idx)

\* the record's result has an analysis block that carries a count
HasCount(k) ==
    LET result == future_result[df[k].idx]
    IN  /\ "analysis" \in DOMAIN result
        /\ "total_problems_found" \in DOMAIN result.analysis

\* C33 as stated: Total_Problems of an enriched record is the number of
\* problems of its result, which is the number of entries joined in its
\* concatenated columns and the number of its normalized rows that are no
\* placeholder.  Stated for results whose analysis block carries a count.
C33_TotalIsCount ==
    \A k \in 1..Len(df) :
       (Materialized(k) /\ HasCount(k)) =>
          /\ df_result[k].Total_Problems = Len(ProblemsAt(k))
          /\ df_result[k].Part_Assembly_Concat = JoinSep(Field(ProblemsAt(k), "part"))
          /\ df_result[k].Total_Problems = Len(ProblemRows(k))

\* C33, amended: the concatenated columns join one entry per problem of the
\* result and the record has one normalized row that is no placeholder per
\* problem; Total_Problems is the count of the analysis block (0 without one),
\* hence the number of problems exactly when the service counted them right.
C33_ViewsAndCount ==
    \A k \in 1..Len(df) :
       Materialized(k) =>
          LET p == ProblemsAt(k)
              result == future_result[df[k].idx]
              analysis == Get(result, "analysis", EmptyObject)
              total == Get(analysis, "total_problems_found", 0)
          IN  /\ df_result[k].Part_Assembly_Concat = JoinSep(Field(p, "part"))
              /\ df_result[k].Failure_Mode_Concat = JoinSep(Field(p, "failure_mode"))
              /\ df_result[k].Fix_Concat = JoinSep(Field(p, "fix"))
              /\ df_result[k].Confidence_Concat = JoinSep(Field(p, "confidence"))
              /\ Len(ProblemRows(k)) = Len(p)
              /\ df_result[k].Total_Problems = total

\* a record whose result counts three problems and lists one
C33_Witness ==
    \E k \in 1..Len(df) :
       /\ Materialized(k)
       /\ future_result[df[k].idx] = Miscounted
       /\ df_result[k].Total_Problems = 3
       /\ df_result[k].Part_Assembly_Concat = "Pump"
       /\ Len(ProblemRows(k)) = 1

(***************************************************************************)
(* save_excel keeps what is on disk.                                       *)
(***************************************************************************)
\* g is a backup name of f
IsBackupOf(g, f) == \E t \in 1..MaxClock : g = backup_path(f, t)

\* the content the file f had is still on disk, under f or a backup name of f
Kept(f) ==
    \E g \in DOMAIN disk' :
       /\ g = f \/ IsBackupOf(g, f)
       /\ disk'[g] = disk[f]

\* C34: in every call of save_excel each file that existed keeps its content
\* under its own name or a backup name, and the call writes the new table to
\* the path it returns, a path no file had when it was written; also when
\* to_excel fails and the CSV is written, and when two calls fall in the same
\* second.
C34_NeverDestroys ==
    [][ saves' = saves + 1 =>
          /\ \A f \in DOMAIN disk : Kept(f)
          /\ save_returned' # NoPath
          /\ save_returned' \in DOMAIN disk'
          /\ disk'[save_returned'] = TableContent(saves')
          /\ save_returned' \in DOMAIN disk => Kept(save_returned') ]_vars

====
